---------------------------- MODULE Spec2Model ----------------------------
(***************************************************************************)
(* A model of spark-package (src/python/spark_package/spark_package.py):   *)
(* the command dispatcher `main`, name validation, the archive assembler   *)
(* (zip_artifact, prepare_jar), the descriptor merger (prepare_pom and the *)
(* pom_* helpers), and the init, register and publish actions with their   *)
(* prompts and credentials.                                                *)
(*                                                                         *)
(* Python strings are sequences of one-character strings, so that split,   *)
(* strip, startswith, `in` and the regular expression of validate_name are *)
(* computed as Python computes them.                                       *)
(*                                                                         *)
(* The program is sequential: pc is the position of the one process.  The  *)
(* command line is fixed in Init; the file system, the answers typed at a  *)
(* prompt and the remote servers are the environment, and each part of it  *)
(* is fixed by the action that first reads it.                             *)
(***************************************************************************)
EXTENDS Naturals, Integers, Sequences, FiniteSets, TLC

VARIABLES
    pc,         \* position of the process: a label, "exit", "crash" or "done"
    arguments,  \* the positional arguments returned by p.parse_args()
    name,       \* options.name
    output,     \* the messages printed so far (errors of show_error_and_exit)
    events,     \* prompts issued, file-system changes and HTTP requests, in order
    cwd,        \* the process working directory
    opts,       \* the other options, each fixed when main first reads it
    root,       \* what the package root holds, each part fixed when first read
    out,        \* what the run has created under the output directory
    zs,         \* locals of zip_artifact / prepare_jar (pwd, names, the inner jar)
    pom,        \* locals of prepare_pom (project, prefix, pending lines, last dep)
    loc         \* locals of init_empty_package, resolve_credentials, register_package
                \* and publish_release

vars == <<pc, arguments, name, output, events, cwd, opts, root, out, zs, pom, loc>>

\* None, and the value of a part of the environment nothing has read yet.
None   == <<"None">>
Unread == <<"unread">>

-----------------------------------------------------------------------------
(* Bounds of the model.                                                    *)

MaxNameLen == 4
MaxLineLen == 4

-----------------------------------------------------------------------------
(* Python string primitives.                                               *)

Whitespace == {" ", "\t", "\n", "\r"}

\* s[i:] for 0-based i, as Python slices.
From(s, i) == SubSeq(s, i + 1, Len(s))

\* s.startswith(p)
StartsWith(s, p) == Len(p) <= Len(s) /\ SubSeq(s, 1, Len(p)) = p

\* s.endswith(p)
EndsWith(s, p) == Len(p) <= Len(s) /\ SubSeq(s, Len(s) - Len(p) + 1, Len(s)) = p

\* s.find(sub): the 0-based index of the first occurrence, -1 if there is none.
RECURSIVE FindFrom(_, _, _)
FindFrom(s, sub, i) ==
    IF i + Len(sub) > Len(s) THEN -1
    ELSE IF SubSeq(s, i + 1, i + Len(sub)) = sub THEN i
    ELSE FindFrom(s, sub, i + 1)

Find(s, sub) == FindFrom(s, sub, 0)

\* sub in s
In(sub, s) == Find(s, sub) # -1

\* s.strip(): leading and trailing whitespace removed.
RECURSIVE LStrip(_)
LStrip(s) == IF s # <<>> /\ Head(s) \in Whitespace THEN LStrip(Tail(s)) ELSE s

RECURSIVE RStrip(_)
RStrip(s) ==
    IF s # <<>> /\ s[Len(s)] \in Whitespace THEN RStrip(SubSeq(s, 1, Len(s) - 1)) ELSE s

Strip(s) == RStrip(LStrip(s))

\* s.split(sep) for a non-empty separator: the pieces between the occurrences
\* of sep, found left to right without overlap; always at least one piece.
RECURSIVE Split(_, _)
Split(s, sep) ==
    LET i == Find(s, sep)
    IN  IF i = -1 THEN <<s>>
        ELSE <<SubSeq(s, 1, i)>> \o Split(From(s, i + Len(sep)), sep)

\* All strings over an alphabet of length at most n.
RECURSIVE StringsUpTo(_, _)
StringsUpTo(alphabet, n) ==
    IF n = 0 THEN {<<>>}
    ELSE LET shorter == StringsUpTo(alphabet, n - 1)
         IN  shorter \cup {Append(s, c) : s \in shorter, c \in alphabet}

-----------------------------------------------------------------------------
(* show_error_and_exit and the messages (each by its first sentence).      *)

MsgNoAction     == "Please specify an action, such as 'init', 'zip', 'register' or 'publish'"
MsgTooManyArgs  == "Unrecognized arguments"
MsgNameMissing  == "Please specify the name of the package using -n or --name."
MsgNameSlash    == "The name of the package must contain exactly one slash."
MsgNameChars    == "The name of the package can only contain letters, numbers, dashes, underscores, and must contain a single slash."
MsgNoFolder     == "Please specify the folder of the spark package"
MsgNoFolderZip  == "Please specify the folder of the spark package or the path to the zip file."
MsgNoVersion    == "Please specify a version for the release"
MsgBadAction    == "Unrecognized argument"
MsgNoReadme     == "Cannot find README.md in the root directory of the package."
MsgNoLicense    == "Cannot find LICENSE in the root directory of the package."
MsgNoJar        == "Your directory contains java or scala code but a jar could not be found."
MsgManyJars     == "Your directory contains multiple jars."
MsgDepFormat    == "Spark Package dependencies must be supplied as: "
MsgDepName      == "Spark Package names must be supplied as: "
MsgNoUser       == "Empty username provided!"
MsgNoToken      == "Empty token provided!"
MsgCredUser     == "Could not resolve github username from the file"
MsgCredToken    == "Could not resolve github token from the file"
MsgNoDesc       == "Please supply a proper description or the path to a file:"

NameMessages == {MsgNameMissing, MsgNameSlash, MsgNameChars}

\* What the operators that model a check give when the check passes.
NoError == "no error"

-----------------------------------------------------------------------------
(* validate_name                                                           *)

LowerCase == {"a", "b", "i", "l", "o", "r", "s", "t", "x", "z"}
UpperCase == {"A", "Z"}
Digits    == {"0", "1", "7", "9"}

\* The character class [a-zA-Z0-9-_].
NameClass == LowerCase \cup UpperCase \cup Digits \cup {"-", "_"}

AllIn(s, class) == \A i \in 1..Len(s) : s[i] \in class

\* re.match('^[a-zA-Z0-9-_]*$', n): any number of class characters, and `$`
\* matches at the end of the string and also just before a final newline.
ReMatchName(n) ==
    \/ AllIn(n, NameClass)
    \/ n # <<>> /\ n[Len(n)] = "\n" /\ AllIn(SubSeq(n, 1, Len(n) - 1), NameClass)

\* The message validate_name exits with, or NoError when it returns.
validate_name(n) ==
    IF n = None \/ Len(Strip(n)) = 0 THEN MsgNameMissing
    ELSE LET fields == Split(n, <<"/">>)
         IN  IF Len(fields) # 2 THEN MsgNameSlash
             ELSE IF \E i \in 1..Len(fields) : ~ReMatchName(fields[i]) THEN MsgNameChars
             ELSE NoError

-----------------------------------------------------------------------------
(* The command line.                                                       *)

sInit     == <<"i", "n", "i", "t">>
sZip      == <<"z", "i", "p">>
sRegister == <<"r", "e", "g", "i", "s", "t", "e", "r">>
sPublish  == <<"p", "u", "b", "l", "i", "s", "h">>
sBogus    == <<"b", "o", "g", "u", "s">>

\* The positional arguments tried: none, each action, an unknown word, two words.
ArgumentInputs ==
    {<<>>, <<sInit>>, <<sZip>>, <<sRegister>>, <<sPublish>>, <<sBogus>>, <<sZip, sInit>>}

\* Paths given to -f, -o, -z, -c.  Only RootPath is an existing directory, only
\* ZipPath and CredPath are existing files.
RootPath    == <<"r">>
ZipPath     == <<"z">>
CredPath    == <<"c">>
MissingPath == <<"x">>
Blank       == <<" ">>

isdir(path)  == path = RootPath
isfile(path) == path \in {ZipPath, CredPath}

\* check_path_exists
check_path_exists(option) ==
    ~(option = None \/ Len(Strip(option)) = 0 \/ ~isdir(option))

OutPath     == <<"o">>

NoOptions == [folder |-> Unread, version |-> Unread, out |-> Unread, zip |-> Unread,
              user |-> Unread, token |-> Unread, cred |-> Unread, languages |-> {},
              given |-> {}]

FolderInputs  == {None, Blank, MissingPath, RootPath}
VersionInputs == {None, Blank, <<"1">>}
\* -o: the package root itself (as with the defaults "-f . -o ."), a directory
\* outside the root, a directory that does not exist.
OutInputs     == {RootPath, OutPath, MissingPath}

-----------------------------------------------------------------------------
(* State before main examines the command line.                            *)

NoElement == [tag |-> <<>>, text |-> None, kids |-> <<>>]
NoPython  == [present |-> FALSE, requirements |-> FALSE, readable |-> TRUE, dirs |-> {}]
NoPomFile  == [kind |-> "none", project |-> NoElement]
NoDepsFile == [present |-> FALSE, lines |-> <<>>]
NoRoot == [listing |-> {}, sources |-> {}, files |-> {}, python |-> NoPython,
           pom |-> NoPomFile, deps |-> NoDepsFile]
NoZs   == [caller |-> None, pwd |-> None, zip_pwd |-> None, temp_dir |-> None,
           artifact_name |-> None, files |-> {}, existing_jars |-> {},
           jar |-> <<>>, jar_open |-> FALSE]
NoPom  == [project |-> NoElement, prefix |-> <<>>, lines |-> <<>>, line |-> None,
           dep |-> <<>>]
NoLoc  == [return |-> "", user |-> None, token |-> None, license_id |-> 0, prompts |-> 0,
           short_desc |-> None, long_desc |-> None, homepage |-> None, git_sha1 |-> None,
           zip |-> None, content |-> <<>>, sys_out |-> None, typed |-> <<>>]
CwdStart == <<"cwd">>

Start ==
    /\ pc = "main"
    /\ output = <<>>
    /\ events = <<>>
    /\ cwd = CwdStart
    /\ opts = NoOptions
    /\ root = NoRoot
    /\ out = {}
    /\ zs = NoZs
    /\ pom = NoPom
    /\ loc = NoLoc

\* show_error_and_exit(msg): print and exit(-1).
show_error_and_exit(msg) ==
    /\ pc' = "exit"
    /\ output' = Append(output, msg)

\* An exception nothing catches ends the process with a traceback.
raise(exception) ==
    /\ pc' = "crash"
    /\ output' = Append(output, exception)

-----------------------------------------------------------------------------
(* main: lines 634-665.                                                    *)

\* 634-639: exactly one positional argument.
main_arguments ==
    /\ pc = "main"
    /\ IF Len(arguments) = 0 THEN show_error_and_exit(MsgNoAction)
       ELSE IF Len(arguments) > 1 THEN show_error_and_exit(MsgTooManyArgs)
       ELSE pc' = "main_name" /\ output' = output
    /\ UNCHANGED <<arguments, name, events, cwd, opts, root, out, zs, pom, loc>>

\* 640: validate_name(options.name, p).
main_validate_name ==
    /\ pc = "main_name"
    /\ IF validate_name(name) # NoError THEN show_error_and_exit(validate_name(name))
       ELSE pc' = "main_action" /\ output' = output
    /\ UNCHANGED <<arguments, name, events, cwd, opts, root, out, zs, pom, loc>>


Action == arguments[1]

\* 646-651: zip needs an existing folder, then a non-blank version.
main_zip ==
    /\ pc = "main_action"
    /\ Action = sZip
    /\ \E f \in FolderInputs, v \in VersionInputs :
          IF ~check_path_exists(f)
          THEN /\ show_error_and_exit(MsgNoFolder)
               /\ opts' = [opts EXCEPT !.folder = f]
               /\ zs' = zs
          ELSE IF v = None \/ Len(Strip(v)) = 0
          THEN /\ show_error_and_exit(MsgNoVersion)
               /\ opts' = [opts EXCEPT !.folder = f, !.version = v]
               /\ zs' = zs
          ELSE /\ pc' = "zip_artifact"
               /\ output' = output
               /\ opts' = [opts EXCEPT !.folder = f, !.version = v]
               /\ zs' = [zs EXCEPT !.caller = <<"main">>]
    /\ UNCHANGED <<arguments, name, events, cwd, root, out, pom, loc>>

\* 664-665: any other word.
main_unrecognized ==
    /\ pc = "main_action"
    /\ Action \notin {sInit, sZip, sRegister, sPublish}
    /\ show_error_and_exit(MsgBadAction)
    /\ UNCHANGED <<arguments, name, events, cwd, opts, root, out, zs, pom, loc>>

-----------------------------------------------------------------------------
(* The package root and the output directory.                              *)

sREADME     == <<"README.md">>
sLICENSE    == <<"LICENSE">>
sLICENSEtxt == <<"LICENSE.txt">>
sLICENSEmd  == <<"LICENSE.md">>

\* The entries of the root that validate_files_exist looks for.
RootEntries == {sREADME, sLICENSE, sLICENSEtxt, sLICENSEmd}

\* get_license_file_name, on the listing of the directory.
get_license_file_name(files) ==
    IF sLICENSE \in files THEN sLICENSE
    ELSE IF sLICENSEtxt \in files THEN sLICENSEtxt
    ELSE IF sLICENSEmd \in files THEN sLICENSEmd
    ELSE None

\* A variant that looks for the license before the README.
validate_files_exist_license_first(files) ==
    IF get_license_file_name(files) = None THEN MsgNoLicense
    ELSE IF sREADME \notin files THEN MsgNoReadme
    ELSE NoError

\* validate_files_exist: the message it exits with, or NoError when it returns.
validate_files_exist(files) ==
    IF sREADME \notin files THEN MsgNoReadme
    ELSE IF get_license_file_name(files) = None THEN MsgNoLicense
    ELSE NoError

\* What a run creates under out_dir: files and directories by path.  A path is
\* a sequence of names below out_dir; the scratch directory of tempfile.mkdtemp
\* is named TempName.
TempName == <<"t", "m", "p", "0">>

\* An archive holds entries (names, in the order written); a descriptor holds
\* the project element it was serialized from.
Dir(path)            == [path |-> path, kind |-> "dir", entries |-> <<>>, project |-> NoElement]
Archive(path, names) == [path |-> path, kind |-> "archive", entries |-> names, project |-> NoElement]
Descriptor(path, e)  == [path |-> path, kind |-> "descriptor", entries |-> <<>>, project |-> e]
\* A text file written from a template: what was substituted into it.
TextFile(path, text) == [path |-> path, kind |-> "text", entries |-> text, project |-> NoElement]
Paths(tree)          == {e.path : e \in tree}
Under(tree, dirname) == {e \in tree : e.path[1] = dirname}
At(tree, path)       == CHOOSE e \in tree : e.path = path

\* out_dir is the package root or below it.
OutInRoot == opts.out = RootPath

sJar == <<"j", "a", "r">>
sPom == <<"p", "o", "m">>
sZipExt == <<"z", "i", "p">>
sLib == <<"l", "i", "b">>
sSbt == <<"s", "b", "t">>
sAssembly == <<"a", "s", "s", "e", "m", "b", "l", "y">>
sDotJar == <<".">> \o sJar

\* The files of the root's subtree that os.walk meets, with the entries of
\* those that are archives.
InTree(dir, file, entries) == [dir |-> dir, file |-> file, entries |-> entries]

sTarget == <<"t", "a", "r", "g", "e", "t">>
TreeFiles ==
    { InTree(sTarget, <<"x">> \o sDotJar, << <<"X.class">>, <<"Y.class">> >>),
      InTree(<<>>, <<"y">> \o sDotJar, << <<"Z.class">> >>),
      InTree(sLib, <<"d">> \o sDotJar, << <<"D.class">> >>),
      InTree(sTarget, <<"x">> \o sLib \o sDotJar, << <<"L.class">> >>),
      InTree(<<"b", "u", "i", "l", "d">>, sSbt \o sDotJar, << <<"S.class">> >>),
      InTree(sTarget, <<"x", "-">> \o sAssembly \o sDotJar, << <<"X.class">>, <<"D.class">> >>),
      InTree(sTarget, <<"x", ".">> \o sZipExt, << <<"X.class">> >>) }

MaxTreeFiles == 2
TreeInputs == {t \in SUBSET TreeFiles : Cardinality(t) <= MaxTreeFiles}

PythonInputs ==
    { NoPython,
      [present |-> TRUE, requirements |-> TRUE, readable |-> TRUE, dirs |-> {}],
      [present |-> TRUE, requirements |-> FALSE, readable |-> TRUE,
       dirs |-> {<<"p", "k", "g">>, <<"m", "l">> \o sLib}],
      [present |-> TRUE, requirements |-> TRUE, readable |-> FALSE, dirs |-> {}] }

-----------------------------------------------------------------------------
(* zip_artifact: lines 158-179, and prepare_jar: lines 107-155.            *)

\* "%s-%s." % (name.split('/')[1], version)
ArtifactName(n, version) == Split(n, <<"/">>)[2] \o <<"-">> \o version \o <<".">>

\* 162-163: validate_name, then validate_files_exist on os.listdir(root_dir).
zip_artifact_validate(listings) ==
    /\ pc = "zip_artifact"
    /\ \E listing \in listings :
          /\ root' = [root EXCEPT !.listing = listing]
          /\ IF validate_name(name) # NoError THEN show_error_and_exit(validate_name(name))
             ELSE IF validate_files_exist(listing) # NoError
             THEN show_error_and_exit(validate_files_exist(listing))
             ELSE pc' = "zip_artifact_mkdtemp" /\ output' = output
    /\ UNCHANGED <<arguments, name, events, cwd, opts, out, zs, pom, loc>>

\* 164-166: tempfile.mkdtemp(dir=out_dir) and the names built from it.
zip_artifact_mkdtemp(outs) ==
    /\ pc = "zip_artifact_mkdtemp"
    /\ \E o \in outs :
          /\ opts' = [opts EXCEPT !.out = o]
          /\ IF o = MissingPath
             THEN raise("FileNotFoundError") /\ UNCHANGED <<out, zs>>
             ELSE /\ pc' = "prepare_jar"
                  /\ output' = output
                  /\ out' = out \cup {Dir(<<TempName>>)}
                  /\ zs' = [zs EXCEPT !.temp_dir = TempName,
                                      !.artifact_name = ArtifactName(name, opts.version)]
    /\ UNCHANGED <<arguments, name, events, cwd, root, pom, loc>>

InnerJarPath == <<zs.temp_dir, zs.artifact_name \o sJar>>

\* 113-117: remember the directory, create the inner jar, enter the root.
prepare_jar_open ==
    /\ pc = "prepare_jar"
    /\ zs' = [zs EXCEPT !.pwd = cwd, !.jar = <<>>, !.jar_open = TRUE,
                        !.files = root.listing \cup (IF OutInRoot THEN {<<TempName>>} ELSE {})]
    /\ out' = out \cup {Archive(InnerJarPath, <<>>)}
    /\ cwd' = RootPath
    /\ pc' = "prepare_jar_existing"
    /\ UNCHANGED <<arguments, name, output, events, opts, root, pom, loc>>

\* 123-126: the *.jar files os.walk('.') meets whose file name holds none of
\* 'lib', 'sbt', 'assembly'.
ExistingJars(tree) ==
    { f \in tree : /\ EndsWith(f.file, sDotJar)
                   /\ ~In(sLib, f.file)
                   /\ ~In(sSbt, f.file)
                   /\ ~In(sAssembly, f.file) }

\* What os.walk('.') meets in the root: the root's files, and the inner jar
\* being written (not yet an archive) when the scratch directory is below the root.
Walk(tree) ==
    tree \cup (IF OutInRoot
               THEN {[dir |-> zs.temp_dir, file |-> zs.artifact_name \o sJar,
                      entries |-> <<>>, archive |-> FALSE]}
               ELSE {})

Archives(tree) == {[dir |-> f.dir, file |-> f.file, entries |-> f.entries, archive |-> TRUE] : f \in tree}

\* 118-142: with scala or java sources, copy the one jar that was built.
prepare_jar_existing(trees) ==
    /\ pc = "prepare_jar_existing"
    /\ \E sources \in SUBSET {"scala", "java"}, tree \in trees :
          LET existing_jars == ExistingJars(Walk(Archives(tree)))
              old_jar == CHOOSE j \in existing_jars : TRUE
          IN  IF sources = {}
              THEN /\ root' = [root EXCEPT !.sources = sources]
                   /\ pc' = "prepare_jar_files"
                   /\ UNCHANGED <<output, zs>>
              ELSE /\ root' = [root EXCEPT !.sources = sources, !.files = tree]
                   /\ IF Cardinality(existing_jars) = 0
                      THEN /\ show_error_and_exit(MsgNoJar)
                           /\ zs' = [zs EXCEPT !.existing_jars = existing_jars]
                      ELSE IF Cardinality(existing_jars) > 1
                      THEN /\ show_error_and_exit(MsgManyJars)
                           /\ zs' = [zs EXCEPT !.existing_jars = existing_jars]
                      ELSE IF ~old_jar.archive
                      THEN /\ raise("BadZipFile")
                           /\ zs' = [zs EXCEPT !.existing_jars = existing_jars]
                      ELSE /\ pc' = "prepare_jar_files"
                           /\ output' = output
                           /\ zs' = [zs EXCEPT !.existing_jars = existing_jars,
                                               !.jar = zs.jar \o old_jar.entries]
    /\ UNCHANGED <<arguments, name, events, cwd, opts, out, pom, loc>>

\* 143-144: the license file and the README.
prepare_jar_files ==
    /\ pc = "prepare_jar_files"
    /\ zs' = [zs EXCEPT !.jar = zs.jar \o <<get_license_file_name(root.listing), sREADME>>]
    /\ pc' = "prepare_jar_python"
    /\ UNCHANGED <<arguments, name, output, events, cwd, opts, root, out, pom, loc>>

sPython == <<"/python">>

\* 150-151: the directories of python/ packaged besides its top level.
python_dirs(dirs) ==
    { d \in dirs : /\ ~In(<<"b", "i", "n">>, d)
                   /\ ~In(<<"d", "o", "c">>, d)
                   /\ ~In(<<".", "g", "i", "t">>, d)
                   /\ ~In(sLib, d) }

\* The entries jar.writepy(dir) adds for each directory, in some order.
RECURSIVE WritePyDirs(_)
WritePyDirs(dirs) ==
    IF dirs = {} THEN <<>>
    ELSE LET d == CHOOSE x \in dirs : TRUE
         IN  <<d \o <<"/__init__.pyc">> >> \o WritePyDirs(dirs \ {d})

\* 145-153: the python sources, packaged from inside python/.
prepare_jar_python(pythons) ==
    /\ pc = "prepare_jar_python"
    /\ \E python \in pythons :
          /\ root' = [root EXCEPT !.python = python]
          /\ IF ~python.present
             THEN /\ pc' = "prepare_jar_close"
                  /\ UNCHANGED <<output, cwd, zs>>
             ELSE /\ cwd' = cwd \o sPython
                  /\ IF ~python.readable
                     THEN raise("IOError") /\ zs' = zs
                     ELSE /\ pc' = "prepare_jar_close"
                          /\ output' = output
                          /\ zs' = [zs EXCEPT !.jar =
                                       zs.jar \o << <<"setup.pyc">> >>
                                              \o (IF python.requirements
                                                  THEN << <<"requirements.txt">> >> ELSE <<>>)
                                              \o WritePyDirs(python_dirs(python.dirs))]
    /\ UNCHANGED <<arguments, name, events, opts, out, pom, loc>>

Replace(tree, path, names) ==
    {e \in tree : e.path # path} \cup {Archive(path, names)}

\* 154-155: close the jar and go back to the directory remembered.
prepare_jar_close ==
    /\ pc = "prepare_jar_close"
    /\ out' = Replace(out, InnerJarPath, zs.jar)
    /\ zs' = [zs EXCEPT !.jar_open = FALSE]
    /\ cwd' = zs.pwd
    /\ pc' = "prepare_pom"
    /\ UNCHANGED <<arguments, name, output, events, opts, root, pom, loc>>

-----------------------------------------------------------------------------
(* The descriptor: xml.etree elements.  A tag is a sequence of pieces, the  *)
(* namespace "{uri}" first when there is one; prefix + name is \o.          *)

Elem(tag, text, kids) == [tag |-> tag, text |-> text, kids |-> kids]

Min(S) == CHOOSE x \in S : \A y \in S : x <= y

\* root.find(tag): the position of the first child with that tag, 0 for None.
find(e, tag) ==
    LET at == {i \in 1..Len(e.kids) : e.kids[i].tag = tag}
    IN  IF at = {} THEN 0 ELSE Min(at)

\* list.insert(index, x) for index >= 0.
ListInsert(s, index, x) ==
    LET k == IF index > Len(s) THEN Len(s) ELSE index
    IN  SubSeq(s, 1, k) \o <<x>> \o SubSeq(s, k + 1, Len(s))

\* pom_add_or_modify_tag; insert_index -1 stands for None (append).
\* A variant that appends when the element has more children than insert_index.
pom_add_or_modify_tag_append_when_longer(e, tag, text, insert_index) ==
    LET i == find(e, tag)
    IN  IF i = 0
        THEN IF insert_index = -1 \/ Len(e.kids) > insert_index
             THEN [e EXCEPT !.kids = Append(e.kids, Elem(tag, text, <<>>))]
             ELSE [e EXCEPT !.kids = ListInsert(e.kids, insert_index, Elem(tag, text, <<>>))]
        ELSE [e EXCEPT !.kids[i].text = text]

pom_add_or_modify_tag(e, tag, text, insert_index) ==
    LET i == find(e, tag)
    IN  IF i = 0
        THEN IF insert_index = -1
             THEN [e EXCEPT !.kids = Append(e.kids, Elem(tag, text, <<>>))]
             ELSE [e EXCEPT !.kids = ListInsert(e.kids, insert_index, Elem(tag, text, <<>>))]
        ELSE [e EXCEPT !.kids[i].text = text]

\* One child of the collection against the new values: "match", "differ", or
\* "AttributeError" when child.find(prefix + tag) is None for a comparison tag.
CompareChild(child, prefix, values, comparison_tags) ==
    IF \E t \in 1..Len(comparison_tags) : find(child, prefix \o <<comparison_tags[t]>>) = 0
    THEN "AttributeError"
    ELSE IF \A t \in 1..Len(comparison_tags) :
                child.kids[find(child, prefix \o <<comparison_tags[t]>>)].text
                    = values[comparison_tags[t]]
    THEN "match"
    ELSE "differ"

\* pom_check_if_child_exists: "True", "False", or "AttributeError" raised at the
\* first child that lacks a comparison tag, if no earlier child matched.
RECURSIVE CheckFrom(_, _, _, _, _)
CheckFrom(parent, prefix, values, comparison_tags, i) ==
    IF i > Len(parent.kids) THEN "False"
    ELSE LET c == CompareChild(parent.kids[i], prefix, values, comparison_tags)
         IN  IF c = "match" THEN "True"
             ELSE IF c = "AttributeError" THEN "AttributeError"
             ELSE CheckFrom(parent, prefix, values, comparison_tags, i + 1)

\* A variant that never finds the entry.
pom_check_if_child_exists_never(parent, prefix, values, comparison_tags) ==
    IF \E i \in 1..Len(parent.kids) :
          CompareChild(parent.kids[i], prefix, values, comparison_tags) = "AttributeError"
    THEN "AttributeError" ELSE "False"

pom_check_if_child_exists(parent, prefix, values, comparison_tags) ==
    CheckFrom(parent, prefix, values, comparison_tags, 1)

\* 495-497: the new entry, its fields in key_order.
RECURSIVE NewEntry(_, _, _, _)
NewEntry(dep, prefix, values, key_order) ==
    IF key_order = <<>> THEN dep
    ELSE NewEntry(pom_add_or_modify_tag(dep, prefix \o <<Head(key_order)>>,
                                        values[Head(key_order)], -1),
                  prefix, values, Tail(key_order))

\* 490-493: the collection element, created and appended when it is missing.
\* A variant that puts the new collection element first.
WithParentFirst(e, tag) ==
    IF find(e, tag) = 0 THEN [e EXCEPT !.kids = <<Elem(tag, None, <<>>)>> \o e.kids] ELSE e

WithParent(e, tag) ==
    IF find(e, tag) = 0 THEN [e EXCEPT !.kids = Append(e.kids, Elem(tag, None, <<>>))] ELSE e

\* pom_add_element raises AttributeError exactly when the duplicate check does.
pom_add_element_raises(e, prefix, parent, values, comparison_keys) ==
    LET r == WithParent(e, prefix \o <<parent>>)
    IN  pom_check_if_child_exists(r.kids[find(r, prefix \o <<parent>>)], prefix, values,
                                  comparison_keys) = "AttributeError"

\* A variant that appends the entry whether or not its key is present.
pom_add_element_always(e, prefix, parent, child, values, comparison_keys, key_order) ==
    LET r == WithParent(e, prefix \o <<parent>>)
        p == find(r, prefix \o <<parent>>)
    IN  [r EXCEPT !.kids[p].kids =
            Append(r.kids[p].kids,
                   NewEntry(Elem(prefix \o <<child>>, None, <<>>), prefix, values, key_order))]

\* pom_add_element: the root afterwards.
pom_add_element(e, prefix, parent, child, values, comparison_keys, key_order) ==
    LET r == WithParent(e, prefix \o <<parent>>)
        p == find(r, prefix \o <<parent>>)
    IN  IF pom_check_if_child_exists(r.kids[p], prefix, values, comparison_keys) = "False"
        THEN [r EXCEPT !.kids[p].kids =
                 Append(r.kids[p].kids,
                        NewEntry(Elem(prefix \o <<child>>, None, <<>>), prefix, values, key_order))]
        ELSE r

\* A variant that lets a package name with more than one '/' through.
validate_and_return_sp_dep_error_lenient(line) ==
    LET first_split == Split(line, <<"=", "=">>)
    IN  IF Len(first_split) # 2 THEN MsgDepFormat
        ELSE IF Len(Split(first_split[1], <<"/">>)) < 2 THEN MsgDepName
        ELSE NoError

\* validate_and_return_sp_dep: the message it exits with, or NoError.
validate_and_return_sp_dep_error(line) ==
    LET first_split == Split(line, <<"=", "=">>)
    IN  IF Len(first_split) # 2 THEN MsgDepFormat
        ELSE IF Len(Split(first_split[1], <<"/">>)) # 2 THEN MsgDepName
        ELSE NoError

\* validate_and_return_sp_dep: what it returns when it returns.
validate_and_return_sp_dep(line) ==
    LET first_split == Split(line, <<"=", "=">>)
        second_split == Split(first_split[1], <<"/">>)
    IN  <<second_split[1], second_split[2], first_split[2]>>

-----------------------------------------------------------------------------
(* prepare_pom: lines 46-104.                                              *)

sProject == <<"project">>
PomNs    == "{http://maven.apache.org/POM/4.0.0}"

\* 67-74: the root written from scratch (its three attributes declare PomNs).
FreshProject == Elem(sProject, None, <<>>)

\* 97-100
repo == [id |-> <<"SparkPackagesRepo">>,
         name |-> <<"Spark Packages Repository">>,
         url |-> <<"http://dl.bintray.com/spark-packages/maven/">>,
         layout |-> <<"default">>]

\* 52: group_id, artifact_id = name.strip().split("/")
GroupId(n)    == Split(Strip(n), <<"/">>)[1]
ArtifactId(n) == Split(Strip(n), <<"/">>)[2]

\* 62-65: the prefix is what precedes 'project' in the root's tag.
Prefix(project) == SubSeq(project.tag, 1, Find(project.tag, sProject))

\* 76-81: groupId, artifactId and version, at positions 1, 2 and 3 when new.
SetCoordinates(project, prefix, group_id, artifact_id, version) ==
    LET g == pom_add_or_modify_tag(project, prefix \o <<"groupId">>, group_id, 1)
        a == pom_add_or_modify_tag(g, prefix \o <<"artifactId">>, artifact_id, 2)
    IN  pom_add_or_modify_tag(a, prefix \o <<"version">>, version, 3)

\* 52-86: the existing pom.xml or a new root, the three coordinates, and the
\* lines of python/spark-package-deps.txt when the file exists.
prepare_pom_start(poms, depfiles) ==
    /\ pc = "prepare_pom"
    /\ \E p \in poms, d \in depfiles :
          LET project == IF p.kind = "none" THEN FreshProject ELSE p.project
              prefix  == IF p.kind = "none" THEN <<>> ELSE Prefix(project)
          IN  /\ root' = [root EXCEPT !.pom = p, !.deps = d]
              /\ IF p.kind = "malformed"
                 THEN raise("ParseError") /\ pom' = pom
                 ELSE IF p.kind = "xml" /\ Find(project.tag, sProject) = -1
                 THEN raise("AssertionError") /\ pom' = pom
                 ELSE /\ pc' = "prepare_pom_deps"
                      /\ output' = output
                      /\ pom' = [pom EXCEPT
                                   !.project = SetCoordinates(project, prefix, GroupId(name),
                                                              ArtifactId(name), opts.version),
                                   !.prefix = prefix,
                                   !.lines = IF d.present THEN d.lines ELSE <<>>]
    /\ UNCHANGED <<arguments, name, events, cwd, opts, out, zs, loc>>

DepKeys  == <<"groupId", "artifactId">>
DepOrder == <<"groupId", "artifactId", "version">>

\* 87-96: one line of the file: a comment is skipped, anything else must parse
\* and is added to <dependencies> unless its key is already there.
prepare_pom_line ==
    /\ pc = "prepare_pom_deps"
    /\ pom.lines # <<>>
    /\ LET line == Strip(Head(pom.lines))
           t    == validate_and_return_sp_dep(line)
           dep  == [groupId |-> t[1], artifactId |-> t[2], version |-> t[3]]
       IN  IF StartsWith(line, <<"#">>)
           THEN /\ pom' = [pom EXCEPT !.lines = Tail(pom.lines), !.line = line, !.dep = <<>>]
                /\ UNCHANGED <<pc, output>>
           ELSE IF validate_and_return_sp_dep_error(line) # NoError
           THEN /\ show_error_and_exit(validate_and_return_sp_dep_error(line))
                /\ pom' = [pom EXCEPT !.line = line, !.dep = <<>>]
           ELSE IF pom_add_element_raises(pom.project, pom.prefix, "dependencies", dep, DepKeys)
           THEN /\ raise("AttributeError")
                /\ pom' = [pom EXCEPT !.line = line, !.dep = t]
           ELSE /\ pom' = [pom EXCEPT
                             !.project = pom_add_element(pom.project, pom.prefix, "dependencies",
                                                         "dependency", dep, DepKeys, DepOrder),
                             !.lines = Tail(pom.lines), !.line = line, !.dep = t]
                /\ UNCHANGED <<pc, output>>
    /\ UNCHANGED <<arguments, name, events, cwd, opts, root, out, zs, loc>>

\* Pieces of a tag that open a namespace "{uri}" without closing it, and
\* pieces that close one: what Xml.tostring needs to split a qualified name.
OtherNsOpen  == "{http://example.org/"
OtherNsClose == "/1.0}"
Opening == {OtherNsOpen}
Closing == {PomNs, OtherNsClose}

\* 104: Xml.tostring splits a tag that starts with "{" at its last "}", and
\* raises ValueError when there is none.
BadQName(tag) ==
    /\ tag # <<>>
    /\ tag[1] \in Opening
    /\ \A i \in 1..Len(tag) : tag[i] \notin Closing

RECURSIVE AnyBadQName(_)
AnyBadQName(e) ==
    \/ BadQName(e.tag)
    \/ \E i \in 1..Len(e.kids) : AnyBadQName(e.kids[i])

RepoKeys  == <<"url">>
\* The fields of the repository in the order of their names.
RepoOrderAlphabetical == <<"id", "layout", "name", "url">>

RepoOrder == <<"id", "name", "url", "layout">>

PomPath == <<zs.temp_dir, ArtifactId(name) \o <<"-">> \o opts.version \o <<".">> \o sPom>>

\* 97-104: the SparkPackagesRepo repository, and the descriptor written to out_dir.
prepare_pom_write ==
    /\ pc = "prepare_pom_deps"
    /\ pom.lines = <<>>
    /\ IF pom_add_element_raises(pom.project, pom.prefix, "repositories", repo, RepoKeys)
       THEN raise("AttributeError") /\ UNCHANGED <<pom, out>>
       ELSE LET project == pom_add_element(pom.project, pom.prefix, "repositories",
                                           "repository", repo, RepoKeys, RepoOrder)
            IN  IF AnyBadQName(project)
                THEN /\ raise("ValueError")
                     /\ pom' = [pom EXCEPT !.project = project]
                     /\ out' = {e \in out : e.path # PomPath} \cup {TextFile(PomPath, <<>>)}
                ELSE
                /\ pom' = [pom EXCEPT !.project = project]
                /\ out' = {e \in out : e.path # PomPath} \cup {Descriptor(PomPath, project)}
                /\ pc' = "zip_artifact_write"
                /\ output' = output
    /\ UNCHANGED <<arguments, name, events, cwd, opts, root, zs, loc>>

\* The tag in the namespace ns, unless it is in a namespace already.
QualifiedTag(tag, ns) ==
    IF tag # <<>> /\ tag[1] = ns THEN tag ELSE <<ns>> \o tag

\* 103-104 with pom_pretty_print (454-456), read back by Xml.parse (58-59): a
\* root written from scratch declares the namespace in its xmlns attribute, so
\* the parser puts every element of the document into it; toprettyxml indents,
\* so an element with children comes back with white space as its text, while
\* the text of an element without children is kept.
RECURSIVE Reparse(_, _)
Reparse(e, xmlns) ==
    [tag  |-> IF xmlns THEN QualifiedTag(e.tag, PomNs) ELSE e.tag,
     text |-> IF e.kids # <<>> THEN <<"\n">> ELSE e.text,
     kids |-> [i \in 1..Len(e.kids) |-> Reparse(e.kids[i], xmlns)]]

-----------------------------------------------------------------------------
(* zip_artifact, after prepare_jar and prepare_pom.                        *)

ZipPathOut == <<zs.artifact_name \o sZipExt>>

\* 169-176: the outer zip, written from inside the scratch directory.
zip_artifact_write ==
    /\ pc = "zip_artifact_write"
    /\ LET members == <<zs.artifact_name \o sPom, zs.artifact_name \o sJar>>
           missing == \E i \in 1..2 : <<zs.temp_dir, members[i]>> \notin Paths(out)
       IN  IF missing
           THEN /\ raise("FileNotFoundError")
                /\ out' = out \cup {Archive(ZipPathOut, <<>>)}
                /\ cwd' = opts.out \o <<"/">> \o zs.temp_dir
           ELSE /\ pc' = "zip_artifact_cleanup"
                /\ output' = output
                /\ out' = out \cup {Archive(ZipPathOut, members)}
                /\ cwd' = cwd
    /\ zs' = [zs EXCEPT !.zip_pwd = cwd]
    /\ UNCHANGED <<arguments, name, events, opts, root, pom, loc>>

MsgZipCreated == "Zip File created at: "

\* 169: zip_path = os.path.join(out, artifact_name + ".zip")
zip_path == opts.out \o <<"/">> \o zs.artifact_name \o sZipExt

\* 177-179: remove the scratch directory, report, return zip_path.
\* A variant that leaves the scratch directory behind.
zip_artifact_cleanup_keeps_scratch ==
    /\ pc = "zip_artifact_cleanup"
    /\ output' = Append(output, MsgZipCreated)
    /\ pc' = IF zs.caller = <<"main">> THEN "done" ELSE "publish_release_upload"
    /\ loc' = IF zs.caller = <<"main">> THEN loc ELSE [loc EXCEPT !.zip = zip_path]
    /\ UNCHANGED <<arguments, name, events, cwd, opts, root, out, zs, pom>>

zip_artifact_cleanup ==
    /\ pc = "zip_artifact_cleanup"
    /\ out' = out \ Under(out, zs.temp_dir)
    /\ output' = Append(output, MsgZipCreated)
    /\ pc' = IF zs.caller = <<"main">> THEN "done" ELSE "publish_release_upload"
    /\ loc' = IF zs.caller = <<"main">> THEN loc ELSE [loc EXCEPT !.zip = zip_path]
    /\ UNCHANGED <<arguments, name, events, cwd, opts, root, zs, pom>>

-----------------------------------------------------------------------------
(* Inputs of the descriptor merger.                                        *)

Text(e)     == e.text
Field(p, k, text) == Elem(p \o <<k>>, text, <<>>)

\* A <dependency> with the fields given, in the namespace prefix p.
Dependency(p, g, a, v) ==
    Elem(p \o <<"dependency">>, None,
         <<Field(p, "groupId", g), Field(p, "artifactId", a), Field(p, "version", v)>>)

\* The pom.xml of tests.py create_pom: modelVersion and the three coordinates.
TestPom ==
    [kind |-> "xml",
     project |-> Elem(<<PomNs>> \o sProject, None,
                      <<Field(<<PomNs>>, "modelVersion", <<"4.0.0">>),
                        Field(<<PomNs>>, "groupId", <<"org.test">>),
                        Field(<<PomNs>>, "artifactId", <<"zip-test">>),
                        Field(<<PomNs>>, "version", <<"0.2">>)>>)]

MalformedPom == [kind |-> "malformed", project |-> NoElement]

\* Lines of spark-package-deps.txt.
lGood    == <<"a", "/", "b", "=", "=", "1">>
lGood2   == <<"a", "/", "b", "=", "=", "2">>
lOther   == <<"c", "/", "b", "=", "=", "1">>
lWrong   == <<"a", "/", "b">>
lColon   == <<"a", ":", "b", "=", "=", "1">>
lComment == <<" ", "#", "c">>

DepsFile(lines) == [present |-> TRUE, lines |-> lines]

ZipPoms     == {NoPomFile, TestPom, MalformedPom}
ZipDepFiles == {NoDepsFile, DepsFile(<<lComment, lGood>>), DepsFile(<<lWrong>>),
                DepsFile(<<lGood, lColon>>)}

-----------------------------------------------------------------------------
(* get_license_id: lines 391-396, and the licenses: lines 184-195.         *)

licenses ==
    << [name |-> "Apache-2.0", url |-> "http://opensource.org/licenses/Apache-2.0"],
       [name |-> "BSD 3-Clause", url |-> "http://opensource.org/licenses/BSD-3-Clause"],
       [name |-> "BSD 2-Clause", url |-> "http://opensource.org/licenses/BSD-2-Clause"],
       [name |-> "GPL-2.0", url |-> "http://opensource.org/licenses/GPL-2.0"],
       [name |-> "GPL-3.0", url |-> "http://opensource.org/licenses/GPL-3.0"],
       [name |-> "LGPL-2.1", url |-> "http://opensource.org/licenses/LGPL-2.1"],
       [name |-> "LGPL-3.0", url |-> "http://opensource.org/licenses/LGPL-3.0"],
       [name |-> "MIT", url |-> "http://opensource.org/licenses/MIT"],
       [name |-> "MPL-2.0", url |-> "http://opensource.org/licenses/MPL-2.0"],
       [name |-> "EPL-1.0", url |-> "http://opensource.org/licenses/EPL-1.0"],
       [name |-> "other license (decide later)", url |-> "n/a"] >>

\* How many answers the user gives to a prompt that asks again.
MaxPrompts == 2

\* The numbers typed at the license prompt: below, inside and above the range.
LicenseAnswers == {0, 1, Len(licenses), Len(licenses) + 1}

MsgLicenseRange == "Please enter a value between 1-"

\* One round of the loop: int(input(prompt)), asked again while out of range;
\* text that is no integer is a ValueError.
get_license_id(answers) ==
    /\ pc = "get_license_id"
    /\ loc.prompts < MaxPrompts
    /\ events' = Append(events, "prompt: license")
    /\ \E integer \in BOOLEAN, license_id \in answers :
          IF ~integer
          THEN raise("ValueError") /\ loc' = [loc EXCEPT !.prompts = @ + 1]
          ELSE IF license_id < 1 \/ license_id > Len(licenses)
          THEN /\ output' = Append(output, MsgLicenseRange)
               /\ loc' = [loc EXCEPT !.prompts = @ + 1, !.typed = Append(@, license_id)]
               /\ pc' = pc
          ELSE /\ output' = output
               /\ loc' = [loc EXCEPT !.prompts = @ + 1, !.typed = Append(@, license_id),
                                     !.license_id = license_id]
               /\ pc' = loc.return
    /\ UNCHANGED <<arguments, name, cwd, opts, root, out, zs, pom>>

-----------------------------------------------------------------------------
(* init: main lines 641-645, init_empty_package lines 271-298.             *)

Languages == {"scala", "java", "python", "r"}

\* 642-643: no language flag means --scala.
DefaultLanguagesNone(flags) == flags

DefaultLanguages(flags) == IF flags = {} THEN {"scala"} ELSE flags

\* 641-645
main_init ==
    /\ pc = "main_action"
    /\ Action = sInit
    /\ \E flags \in SUBSET Languages, o \in {OutPath, RootPath} :
          opts' = [opts EXCEPT !.given = flags, !.languages = DefaultLanguages(flags),
                               !.out = o]
    /\ pc' = "init_empty_package"
    /\ UNCHANGED <<arguments, name, output, events, cwd, root, out, zs, pom, loc>>

\* 272-276: the package directory must not exist; then the license is asked for.
init_empty_package ==
    /\ pc = "init_empty_package"
    /\ \E exists \in BOOLEAN :
          IF exists
          THEN raise("RuntimeError") /\ loc' = loc
          ELSE /\ pc' = "get_license_id"
               /\ output' = output
               /\ loc' = [loc EXCEPT !.return = "init_empty_package_create", !.prompts = 0]
    /\ UNCHANGED <<arguments, name, events, cwd, opts, root, out, zs, pom>>

\* A path below the package directory, and the directories os.makedirs creates
\* on the way to it.
Below(repo_name, names) == <<repo_name>> \o [i \in 1..Len(names) |-> <<names[i]>>]
MakeDirs(repo_name, names) ==
    {Dir(Below(repo_name, SubSeq(names, 1, k))) : k \in 0..Len(names)}
Static(repo_name, names) == TextFile(Below(repo_name, names), <<>>)

\* create_license_file: the "decide later" placeholder for the last license,
\* else the template named after the license.
create_license_file(repo_name, license_id) ==
    TextFile(Below(repo_name, <<"LICENSE">>),
             IF license_id = Len(licenses) THEN <<"resources/LICENSE">>
             ELSE <<"resources/license_temps", licenses[license_id].name>>)

\* get_license_replacement: what replaces the license placeholder.
get_license_replacement_always_pair(license_id, just_name) ==
    IF just_name THEN <<licenses[license_id].name>>
    ELSE <<"licenses := Seq", licenses[license_id].name, licenses[license_id].url>>

get_license_replacement(license_id, just_name) ==
    IF license_id # Len(licenses)
    THEN IF just_name THEN <<licenses[license_id].name>>
         ELSE <<"licenses := Seq", licenses[license_id].name, licenses[license_id].url>>
    ELSE IF just_name THEN <<"Please specify a license">>
         ELSE <<"// format: licenses := Seq($LICENSE_NAME -> $LICENSE_URL)">>

init_src_directories(repo_name, suffix) ==
    MakeDirs(repo_name, <<"src", "main", suffix>>) \cup MakeDirs(repo_name, <<"src", "test", suffix>>)

init_sbt_directories(repo_name, license_id) ==
    MakeDirs(repo_name, <<"project">>) \cup MakeDirs(repo_name, <<"build">>)
    \cup { TextFile(Below(repo_name, <<"build.sbt">>),
                    <<"spName">> \o get_license_replacement(license_id, FALSE)),
           Static(repo_name, <<"project", "build.properties">>),
           Static(repo_name, <<"project", "plugins.sbt">>),
           Static(repo_name, <<"build", "sbt">>),
           Static(repo_name, <<"build", "sbt-launch-lib.bash">>) }

init_python_directories(repo_name) ==
    MakeDirs(repo_name, <<"python">>)
    \cup { Static(repo_name, <<"python", f>>) :
             f \in {"setup.py", "setup.cfg", "MANIFEST.in", "requirements.txt",
                    "spark-package-deps.txt", "tests.py"} }

init_r_directories(repo_name, license_id) ==
    UNION { MakeDirs(repo_name, <<"R", "pkg", d>>) : d \in {"R", "man", "data", "src"} }
    \cup { TextFile(Below(repo_name, <<"R", "pkg", "DESCRIPTION">>),
                    <<"Package">> \o get_license_replacement(license_id, TRUE)),
           Static(repo_name, <<"R", "pkg", "NAMESPACE">>),
           TextFile(Below(repo_name, <<"R", "pkg", "man", "documentation.Rd">>),
                    <<"Package">> \o get_license_replacement(license_id, TRUE)),
           Static(repo_name, <<"R", "pkg", "Read-and-delete-me">>) }

\* 277-298: what init creates under base_dir.
InitTree(repo_name, scala, java, python, r, license_id) ==
    MakeDirs(repo_name, <<>>)
    \cup { create_license_file(repo_name, license_id),
           Static(repo_name, <<"README.md">>),
           Static(repo_name, <<".gitignore">>) }
    \cup (IF ~scala /\ ~java
          THEN (IF python THEN init_python_directories(repo_name) ELSE {})
               \cup (IF r THEN init_r_directories(repo_name, license_id) ELSE {})
          ELSE init_src_directories(repo_name, "resources")
               \cup (IF java \/ scala THEN init_sbt_directories(repo_name, license_id) ELSE {})
               \cup (IF java THEN init_src_directories(repo_name, "java") ELSE {})
               \cup (IF scala THEN init_src_directories(repo_name, "scala") ELSE {})
               \cup (IF python THEN init_python_directories(repo_name) ELSE {})
               \cup (IF r THEN init_r_directories(repo_name, license_id) ELSE {}))

\* 277-298: create the package directory, enter it, write the skeleton.
init_empty_package_create ==
    /\ pc = "init_empty_package_create"
    /\ LET repo_name == Split(name, <<"/">>)[2]
       IN  /\ out' = InitTree(repo_name, "scala" \in opts.languages, "java" \in opts.languages,
                              "python" \in opts.languages, "r" \in opts.languages,
                              loc.license_id)
           /\ cwd' = opts.out \o <<"/">> \o repo_name
    /\ pc' = "done"
    /\ UNCHANGED <<arguments, name, output, events, opts, root, zs, pom, loc>>

-----------------------------------------------------------------------------
(* resolve_credentials: lines 522-539, read_credentials_file: lines 501-519. *)

sUserEq     == <<"u", "s", "e", "r", "=">>
sPasswordEq == <<"p", "a", "s", "s", "w", "o", "r", "d", "=">>

\* x.strip('\n')
RECURSIVE StripNewlines(_)
StripNewlines(s) ==
    IF s # <<>> /\ Head(s) = "\n" THEN StripNewlines(Tail(s))
    ELSE IF s # <<>> /\ s[Len(s)] = "\n" THEN StripNewlines(SubSeq(s, 1, Len(s) - 1))
    ELSE s

\* 502-512: the last line holding 'user=' and the last other line holding
\* 'password=' decide; each gives what follows its first len(key) characters.
RECURSIVE ReadLines(_, _, _)
ReadLines(lines, user, token) ==
    IF lines = <<>> THEN [user |-> user, token |-> token]
    ELSE LET line == StripNewlines(Head(lines))
         IN  IF In(sUserEq, line)
             THEN ReadLines(Tail(lines), Strip(From(Strip(line), Len(sUserEq))), token)
             ELSE IF In(sPasswordEq, line)
             THEN ReadLines(Tail(lines), user, Strip(From(Strip(line), Len(sPasswordEq))))
             ELSE ReadLines(Tail(lines), user, token)

read_credentials_file(lines) == ReadLines(lines, <<>>, <<>>)

\* 513-518: the message read_credentials_file exits with, or NoError.
read_credentials_file_error(lines) ==
    IF read_credentials_file(lines).user = <<>> THEN MsgCredUser
    ELSE IF read_credentials_file(lines).token = <<>> THEN MsgCredToken
    ELSE NoError

lUser     == sUserEq \o <<"u">>
lPassword == sPasswordEq \o <<"p">>

CredInputs  == {None, MissingPath, CredPath}
CredFiles   == {<<lUser, lPassword>>, <<lPassword>>, <<lUser>>}
FlagInputs  == {None, Blank, <<"f">>}
TypedInputs == {<<>>, <<"t">>}

\* 526, 532: the flag is missing or holds only whitespace.
IsBlank(option) == option = None \/ Len(Strip(option)) = 0

\* 523-524: the file is read when -c names a file that exists.
UseFileNever(file) == FALSE

UseFile(file) == file # None /\ isfile(file)

\* resolve_credentials: the file when -c names one, else each flag, else a prompt.
resolve_credentials(files, contents, flags) ==
    /\ pc = "resolve_credentials"
    /\ \E file \in files, user \in flags, token \in flags :
       \E lines \in IF file # None /\ isfile(file) THEN contents ELSE {<<>>},
          typed_user \in IF file # None /\ isfile(file) THEN {<<>>} ELSE TypedInputs,
          typed_token \in IF file # None /\ isfile(file) THEN {<<>>} ELSE TypedInputs :
          LET git_user  == IF IsBlank(user) THEN Strip(typed_user) ELSE user
              git_token == IF IsBlank(token) THEN Strip(typed_token) ELSE token
              ask_user  == IF IsBlank(user) THEN <<"prompt: username">> ELSE <<>>
              ask_token == IF IsBlank(token) THEN <<"prompt: token">> ELSE <<>>
              content   == [i \in 1..Len(lines) |-> StripNewlines(lines[i])]
          IN  /\ opts' = [opts EXCEPT !.cred = file, !.user = user, !.token = token]
              /\ IF UseFile(file)
                 THEN /\ events' = events
                      /\ IF read_credentials_file_error(lines) # NoError
                         THEN /\ show_error_and_exit(read_credentials_file_error(lines))
                              /\ loc' = [loc EXCEPT !.content = content]
                         ELSE /\ pc' = loc.return
                              /\ output' = output
                              /\ loc' = [loc EXCEPT !.content = content,
                                                    !.user = read_credentials_file(lines).user,
                                                    !.token = read_credentials_file(lines).token]
                 ELSE IF git_user = <<>>
                 THEN /\ events' = events \o ask_user
                      /\ show_error_and_exit(MsgNoUser)
                      /\ loc' = loc
                 ELSE IF git_token = <<>>
                 THEN /\ events' = events \o ask_user \o ask_token
                      /\ show_error_and_exit(MsgNoToken)
                      /\ loc' = loc
                 ELSE /\ events' = events \o ask_user \o ask_token
                      /\ pc' = loc.return
                      /\ output' = output
                      /\ loc' = [loc EXCEPT !.user = git_user, !.token = git_token]
    /\ UNCHANGED <<arguments, name, cwd, root, out, zs, pom>>

-----------------------------------------------------------------------------
(* register: main lines 652-654, register_package lines 336-350.           *)

main_register ==
    /\ pc = "main_action"
    /\ Action = sRegister
    /\ pc' = "resolve_credentials"
    /\ loc' = [loc EXCEPT !.return = "register_package"]
    /\ UNCHANGED <<arguments, name, output, events, cwd, opts, root, out, zs, pom>>

\* What is typed at a description prompt: nothing, a text, the path of a file
\* with a description, the path of an empty file.
DescFile      == <<"d", "e", "s", "c">>
EmptyDescFile == <<"e", "m", "p", "t", "y">>
DescInputs    == {Blank, <<"t", "e", "x", "t">>, DescFile, EmptyDescFile}

\* 303-314: get_description, for the short and then the long description.
get_description ==
    /\ pc \in {"register_package", "register_package_long"}
    /\ events' = Append(events, "prompt: description")
    /\ \E typed \in DescInputs :
          LET desc_raw == Strip(typed)
              desc == IF desc_raw = DescFile THEN <<"f", "i", "l", "e">> ELSE desc_raw
          IN  IF desc_raw = <<>>
              THEN show_error_and_exit(MsgNoDesc) /\ loc' = loc
              ELSE IF desc_raw = EmptyDescFile
              THEN raise("AssertionError") /\ loc' = loc
              ELSE /\ output' = output
                   /\ IF pc = "register_package"
                      THEN /\ pc' = "register_package_long"
                           /\ loc' = [loc EXCEPT !.short_desc = desc]
                      ELSE /\ pc' = "register_package_homepage"
                           /\ loc' = [loc EXCEPT !.long_desc = desc]
    /\ UNCHANGED <<arguments, name, cwd, opts, root, out, zs, pom>>

sGithub == <<"https://github.com/">>

\* What the GET of the homepage meets: a page, no page, no server.
Responses == {"200", "404", "no connection"}

\* 317-322: requests.get raises when there is no answer, raise_for_status
\* when the answer is an error status.
check_homepage_unchecked(resp) ==
    IF resp = "no connection" THEN "ConnectionError" ELSE NoError

check_homepage(resp) ==
    IF resp = "no connection" THEN "ConnectionError"
    ELSE IF resp = "404" THEN "HTTPError"
    ELSE NoError

\* 337, 342-345: the homepage, and the GET that checks it.
register_package_homepage ==
    /\ pc = "register_package_homepage"
    /\ \E new_hpg \in {<<>>, Blank, <<"h">>}, resp \in Responses :
          /\ events' = events \o <<"prompt: homepage", "GET homepage", resp>>
          /\ loc' = [loc EXCEPT !.homepage = IF Len(Strip(new_hpg)) > 0 THEN new_hpg
                                             ELSE sGithub \o name]
          /\ IF check_homepage(resp) = NoError
             THEN pc' = "register_package_http" /\ output' = output
             ELSE raise(check_homepage(resp))
    /\ UNCHANGED <<arguments, name, cwd, opts, root, out, zs, pom>>

\* 346-350 and register_package_http 325-333: the POST, and its answer printed.
register_package_http ==
    /\ pc = "register_package_http"
    /\ events' = Append(events, "POST submit-package")
    /\ \E status_code \in {201, 400} :
          output' = Append(output, IF status_code = 201 THEN "SUCCESS" ELSE "ERROR")
    /\ pc' = "done"
    /\ UNCHANGED <<arguments, name, cwd, opts, root, out, zs, pom, loc>>

-----------------------------------------------------------------------------
(* publish: main lines 655-663, publish_release lines 355-387.             *)

main_publish ==
    /\ pc = "main_action"
    /\ Action = sPublish
    /\ pc' = "resolve_credentials"
    /\ loc' = [loc EXCEPT !.return = "main_publish"]
    /\ UNCHANGED <<arguments, name, output, events, cwd, opts, root, out, zs, pom>>

ZipInputs == {None, ZipPath, RootPath, MissingPath}

\* 657-663: a folder or a zip, then a version.
main_publish_check ==
    /\ pc = "main_publish"
    /\ \E f \in FolderInputs, z \in ZipInputs, v \in VersionInputs :
          IF ~check_path_exists(f) /\ ~check_path_exists(z)
          THEN /\ show_error_and_exit(MsgNoFolderZip)
               /\ opts' = [opts EXCEPT !.folder = f, !.zip = z]
          ELSE IF IsBlank(v)
          THEN /\ show_error_and_exit(MsgNoVersion)
               /\ opts' = [opts EXCEPT !.folder = f, !.zip = z, !.version = v]
          ELSE /\ pc' = "publish_release"
               /\ output' = output
               /\ opts' = [opts EXCEPT !.folder = f, !.zip = z, !.version = v]
    /\ UNCHANGED <<arguments, name, events, cwd, root, out, zs, pom, loc>>

\* What git rev-parse HEAD prints: nothing outside a repository, else a hash.
GitOutputs == {<<>>, <<"\n">>, <<"c", "0", "f", "f", "e", "e", "\n">>}

\* 361-364: the two asserts on the output of git.
git_commit_error_unchecked(sys_out) == NoError

git_commit_error(sys_out) ==
    IF Len(Strip(sys_out)) = 0 THEN "AssertionError" ELSE NoError

\* 356-365: enter the folder and ask git for the commit of HEAD.
publish_release_git ==
    /\ pc = "publish_release"
    /\ IF opts.folder = None
       THEN raise("TypeError") /\ UNCHANGED <<cwd, loc>>
       ELSE IF ~isdir(opts.folder)
       THEN raise("FileNotFoundError") /\ UNCHANGED <<cwd, loc>>
       ELSE /\ cwd' = opts.folder
            /\ \E sys_out \in GitOutputs :
                  IF git_commit_error(sys_out) # NoError
                  THEN /\ raise(git_commit_error(sys_out))
                       /\ loc' = [loc EXCEPT !.sys_out = sys_out]
                  ELSE /\ pc' = "get_license_id"
                       /\ output' = output
                       /\ loc' = [loc EXCEPT !.sys_out = sys_out,
                                             !.git_sha1 = Strip(sys_out),
                                             !.return = "publish_release_zip",
                                             !.prompts = 0]
    /\ UNCHANGED <<arguments, name, events, opts, root, out, zs, pom>>

\* 367-370: back to the first directory; build the zip unless -z gave one.
publish_release_zip ==
    /\ pc = "publish_release_zip"
    /\ cwd' = CwdStart
    /\ loc' = [loc EXCEPT !.license_id = @ - 1, !.zip = opts.zip]
    /\ IF opts.zip = None
       THEN pc' = "zip_artifact" /\ zs' = [zs EXCEPT !.caller = <<"publish_release">>]
       ELSE pc' = "publish_release_upload" /\ zs' = zs
    /\ UNCHANGED <<arguments, name, output, events, opts, root, out, pom>>

\* 371-387: read the zip, POST it, print the answer.
publish_release_upload ==
    /\ pc = "publish_release_upload"
    /\ IF loc.zip # None /\ isdir(loc.zip)
       THEN raise("IsADirectoryError") /\ events' = events
       ELSE IF loc.zip # None /\ ~isfile(loc.zip)
                              /\ ~(loc.zip = zip_path /\ ZipPathOut \in Paths(out))
       THEN raise("FileNotFoundError") /\ events' = events
       ELSE /\ events' = Append(events, "POST submit-release")
            /\ \E status_code \in {201, 400} :
                  output' = Append(output, IF status_code = 201 THEN "SUCCESS" ELSE "ERROR")
            /\ pc' = "done"
    /\ UNCHANGED <<arguments, name, cwd, opts, root, out, zs, pom, loc>>

\* The inputs tried with the whole tool.
ZipListings == {{}, {sREADME}, {sREADME, sLICENSE}}
ZipPythons  == {NoPython,
                [present |-> TRUE, requirements |-> TRUE, readable |-> TRUE, dirs |-> {}]}
ZipCredInputs == {None, CredPath}
ZipCredFiles  == {<<lUser, lPassword>>, <<lPassword>>}
ZipFlagInputs == {None, <<"f">>}
ZipTrees ==
    { {},
      {InTree(sTarget, <<"x">> \o sDotJar, << <<"X.class">>, <<"Y.class">> >>)},
      {InTree(sTarget, <<"x">> \o sDotJar, << <<"X.class">>, <<"Y.class">> >>),
       InTree(sLib, <<"d">> \o sDotJar, << <<"D.class">> >>)} }

-----------------------------------------------------------------------------
(* The tool, from the command line to the end of the run.                  *)

\* Names given to -n.
NameInputs ==
    { None,
      <<"a", "/", "b">>,
      <<"a", "/">>,
      <<"a">>,
      <<"a", "/", "b", "/", "c">>,
      <<"a", "!", "/", "b">> }

Init ==
    /\ Start
    /\ arguments \in ArgumentInputs
    /\ name \in NameInputs

Next ==
    \/ main_arguments
    \/ main_validate_name
    \/ main_zip
    \/ main_unrecognized
    \/ zip_artifact_validate(ZipListings)
    \/ zip_artifact_mkdtemp(OutInputs)
    \/ prepare_jar_open
    \/ prepare_jar_existing(ZipTrees)
    \/ prepare_jar_files
    \/ prepare_jar_python(ZipPythons)
    \/ prepare_jar_close
    \/ prepare_pom_start(ZipPoms, ZipDepFiles)
    \/ prepare_pom_line
    \/ prepare_pom_write
    \/ zip_artifact_write
    \/ zip_artifact_cleanup
    \/ main_init
    \/ init_empty_package
    \/ init_empty_package_create
    \/ get_license_id(LicenseAnswers)
    \/ resolve_credentials(ZipCredInputs, ZipCredFiles, ZipFlagInputs)
    \/ main_register
    \/ get_description
    \/ register_package_homepage
    \/ register_package_http
    \/ main_publish
    \/ main_publish_check
    \/ publish_release_git
    \/ publish_release_zip
    \/ publish_release_upload

Spec == Init /\ [][Next]_vars

-----------------------------------------------------------------------------
(* Name validation on every short name.                                    *)

NameAlphabet == {"a", "7", "-", "_", "/", "!", " ", "\n"}

AllNames == StringsUpTo(NameAlphabet, MaxNameLen) \cup {None}

InitName ==
    /\ Start
    /\ arguments \in {<<sInit>>, <<sZip>>}
    /\ name \in AllNames

NextName == main_arguments \/ main_validate_name

SpecName == InitName /\ [][NextName]_vars

\* The package name of the data model: exactly two segments on '/', both
\* non-empty, made of letters, digits, '-' and '_'.
Segments(n) == Split(n, <<"/">>)

WellFormedName(n) ==
    /\ n # None
    /\ Len(Segments(n)) = 2
    /\ \A i \in 1..2 : Segments(n)[i] # <<>> /\ AllIn(Segments(n)[i], NameClass)

-----------------------------------------------------------------------------
(* zip up to the end of prepare_jar, on every small root directory.        *)

JarNames == {<<"a", "/", "b">>, <<"a", "/">> \o sLib}

InitJar ==
    /\ Start
    /\ arguments = <<sZip>>
    /\ name \in JarNames

NextJar ==
    \/ main_arguments
    \/ main_validate_name
    \/ main_zip
    \/ zip_artifact_validate(SUBSET RootEntries)
    \/ zip_artifact_mkdtemp(OutInputs)
    \/ prepare_jar_open
    \/ prepare_jar_existing(TreeInputs)
    \/ prepare_jar_files
    \/ prepare_jar_python(PythonInputs)
    \/ prepare_jar_close

SpecJar == InitJar /\ [][NextJar]_vars

-----------------------------------------------------------------------------
(* zip of a python package, on every small pom.xml and dependency list.    *)

\* A <dependency> that has a version only.
Keyless(p) == Elem(p \o <<"dependency">>, None, <<Field(p, "version", <<"9">>)>>)

\* A <repository> with the url given; one without a url.
Repository(p, url) ==
    Elem(p \o <<"repository">>, None, <<Field(p, "id", <<"r">>), Field(p, "url", url)>>)
Urlless(p) == Elem(p \o <<"repository">>, None, <<Field(p, "id", <<"r">>)>>)

\* How many entries a collection of an existing pom.xml holds at most.
MaxEntries == 2

SeqsUpTo(S, n) == UNION {[1..k -> S] : k \in 0..n}

DependencyEntries(p) ==
    { Dependency(p, <<"a">>, <<"b">>, <<"2">>), Dependency(p, <<"c">>, <<"b">>, <<"1">>),
      Keyless(p) }

RepositoryLists(p) ==
    { <<>>, <<Repository(p, repo.url)>>, <<Repository(p, repo.url), Repository(p, repo.url)>>,
      <<Repository(p, <<"u">>)>>, <<Urlless(p)>>, <<Repository(p, repo.url), Urlless(p)>> }

\* A pom.xml with the namespace prefix p: its coordinates, then each of the
\* two collections when the pom.xml has it.
ExistingPom(p, with_dependencies, dependencies, with_repositories, repositories) ==
    [kind |-> "xml",
     project |-> Elem(p \o sProject, None,
                      <<Field(p, "groupId", <<"org.test">>),
                        Field(p, "version", <<"0.2">>)>>
                      \o (IF with_dependencies
                          THEN <<Elem(p \o <<"dependencies">>, None, dependencies)>> ELSE <<>>)
                      \o (IF with_repositories
                          THEN <<Elem(p \o <<"repositories">>, None, repositories)>> ELSE <<>>))]

PomInputs ==
    {NoPomFile}
    \cup UNION { { ExistingPom(p, wd, d, wr, r) :
                     d \in IF wd THEN SeqsUpTo(DependencyEntries(p), MaxEntries) ELSE {<<>>},
                     r \in IF wr THEN RepositoryLists(p) ELSE {<<>>} } :
                 p \in {<<PomNs>>, <<>>}, wd \in BOOLEAN, wr \in BOOLEAN }

\* How many lines spark-package-deps.txt holds at most.
MaxLines == 2

DepFileInputs ==
    {NoDepsFile} \cup {DepsFile(l) : l \in SeqsUpTo({lGood, lGood2, lOther, lComment}, MaxLines)}

PomListings == {{sREADME, sLICENSE}}
PomOuts     == {OutPath}
PomTrees    == {{}}
PomPythons  == {NoPython}

InitPom ==
    /\ Start
    /\ arguments = <<sZip>>
    /\ name = <<"a", "/", "b">>

NextPom ==
    \/ main_arguments
    \/ main_validate_name
    \/ main_zip
    \/ zip_artifact_validate(PomListings)
    \/ zip_artifact_mkdtemp(PomOuts)
    \/ prepare_jar_open
    \/ prepare_jar_existing(PomTrees)
    \/ prepare_jar_files
    \/ prepare_jar_python(PomPythons)
    \/ prepare_jar_close
    \/ prepare_pom_start(PomInputs, DepFileInputs)
    \/ prepare_pom_line
    \/ prepare_pom_write
    \/ zip_artifact_write
    \/ zip_artifact_cleanup

SpecPom == InitPom /\ [][NextPom]_vars

-----------------------------------------------------------------------------
(* zip of a python package, on every short line of spark-package-deps.txt. *)

LineAlphabet == {"a", "/", "=", "#", " "}

LineInputs ==
    { DepsFile(before \o <<l>> \o after) :
        before \in {<<>>, <<lComment>>},
        l \in StringsUpTo(LineAlphabet, MaxLineLen),
        after \in {<<>>, <<lGood>>} }

InitDeps == InitPom

NextDeps ==
    \/ main_arguments
    \/ main_validate_name
    \/ main_zip
    \/ zip_artifact_validate(PomListings)
    \/ zip_artifact_mkdtemp(PomOuts)
    \/ prepare_jar_open
    \/ prepare_jar_existing(PomTrees)
    \/ prepare_jar_files
    \/ prepare_jar_python(PomPythons)
    \/ prepare_jar_close
    \/ prepare_pom_start({NoPomFile}, LineInputs)
    \/ prepare_pom_line
    \/ prepare_pom_write
    \/ zip_artifact_write
    \/ zip_artifact_cleanup

SpecDeps == InitDeps /\ [][NextDeps]_vars

-----------------------------------------------------------------------------
(* Properties.                                                             *)

LastOutput == IF output = <<>> THEN "" ELSE output[Len(output)]

\* zip_artifact has been called and has been left: by its return, by
\* show_error_and_exit, or by an exception.
ZipReturned == zs.caller # None /\ pc \in {"done", "publish_release_upload"}
ZipLeft     == zs.caller # None /\ pc \in {"done", "publish_release_upload", "exit", "crash"}

\* C1: whenever prepare_jar / zip_artifact is left, by normal return or by a
\* fatal error raised while the directory is changed, the current working
\* directory equals the one in force when the call started.
C1_WorkingDirectoryRestored ==
    ZipLeft => cwd = CwdStart

NameChecked == pc \in {"exit", "main_action"}

\* C2: validate_name accepts a name if and only if it splits on '/' into exactly
\* two non-empty segments of letters, digits, '-' and '_'; every other name ends
\* the run with a name error before the action is run.
C2_AcceptsExactlyWellFormedNames ==
    NameChecked =>
        IF WellFormedName(name) THEN pc = "main_action"
        ELSE pc = "exit" /\ output # <<>> /\ output[Len(output)] \in NameMessages

\* C3: the dispatcher checks the number of action arguments, then the name,
\* then what the action requires.  With one action argument and a missing or
\* invalid name the run ends with the name error alone, before any prompt,
\* file-system change or HTTP request; zip with a valid name and no existing
\* folder ends with the folder error; zip with a valid name and folder and a
\* blank version ends with the version error.
C3_ValidationOrder ==
    /\ (Len(arguments) # 1 /\ pc # "main") =>
          /\ pc = "exit"
          /\ output \in {<<MsgNoAction>>, <<MsgTooManyArgs>>}
    /\ (Len(arguments) = 1 /\ ~WellFormedName(name) /\ pc \notin {"main", "main_name"}) =>
          /\ pc = "exit"
          /\ Len(output) = 1 /\ output[1] \in NameMessages
          /\ events = <<>> /\ out = {} /\ cwd = CwdStart
    /\ (Len(arguments) = 1 /\ Action = sZip /\ WellFormedName(name) /\ opts.folder # Unread) =>
          IF ~(opts.folder = RootPath)
          THEN pc = "exit" /\ output = <<MsgNoFolder>>
          ELSE IF opts.version \in {None, Blank}
          THEN pc = "exit" /\ output = <<MsgNoVersion>>
          ELSE pc # "exit" \/ output \notin {<<MsgNoFolder>>, <<MsgNoVersion>>}

\* zip_artifact has looked at the root directory.
RootChecked == zs.caller # None /\ pc \notin {"main", "main_name", "main_action", "zip_artifact"}

Licenses == {sLICENSE, sLICENSEtxt, sLICENSEmd}

\* C4: zip on a root without README.md ends with 'Cannot find README.md'; on a
\* root with README.md and none of LICENSE, LICENSE.txt, LICENSE.md it ends
\* with 'Cannot find LICENSE'; in both cases nothing has been created in the
\* output directory.
C4_ReadmeThenLicense ==
    RootChecked =>
        IF sREADME \notin root.listing
        THEN pc = "exit" /\ LastOutput = MsgNoReadme /\ out = {}
        ELSE IF root.listing \cap Licenses = {}
        THEN pc = "exit" /\ LastOutput = MsgNoLicense /\ out = {}
        ELSE ~(pc = "exit" /\ LastOutput \in {MsgNoReadme, MsgNoLicense})

\* C4 witness: a root with README.md and no license file was refused.
C4_Witness ==
    /\ pc = "exit"
    /\ LastOutput = MsgNoLicense
    /\ root.listing = {sREADME}

\* The path of a file of the root's subtree, relative to the root.
PathOf(f) == IF f.dir = <<>> THEN f.file ELSE f.dir \o <<"/">> \o f.file

\* The candidate jars of the specification: the .jar files whose path holds
\* none of 'lib', 'sbt', 'assembly'.
Candidates(tree) ==
    { f \in tree : /\ EndsWith(f.file, sDotJar)
                   /\ ~In(sLib, PathOf(f))
                   /\ ~In(sSbt, PathOf(f))
                   /\ ~In(sAssembly, PathOf(f)) }

\* prepare_jar has looked for the jar that was built (or found no sources to
\* look for) and has not gone on to the python sources.
JarSearched ==
    /\ zs.jar_open
    /\ \/ pc = "prepare_jar_files"
       \/ pc \in {"exit", "crash"} /\ root.python = NoPython

\* C5: with src/main/scala or src/main/java in the root, zero candidate jars
\* end the run with the 'jar could not be found' message, two or more with the
\* 'multiple jars' message, and exactly one has every entry copied into the
\* inner jar; without either source tree no jar is searched for and neither
\* error occurs.
C5_ExactlyOneJar ==
    JarSearched =>
        IF root.sources = {}
        THEN pc = "prepare_jar_files" /\ zs.jar = <<>>
        ELSE IF Cardinality(Candidates(root.files)) = 0
        THEN pc = "exit" /\ LastOutput = MsgNoJar
        ELSE IF Cardinality(Candidates(root.files)) > 1
        THEN pc = "exit" /\ LastOutput = MsgManyJars
        ELSE /\ pc = "prepare_jar_files"
             /\ \E j \in Candidates(root.files) : zs.jar = j.entries

UnderLib(f) == f.dir = sLib

\* C6: the candidates are exactly the .jar files of the root's subtree whose
\* path holds none of 'lib', 'sbt', 'assembly'; so jars under lib/ never cause
\* the 'multiple jars' error.  (Stated for an output directory outside the
\* root, where the subtree holds the files of the package only.)
C6_CandidatesByPath ==
    (JarSearched /\ root.sources # {} /\ ~OutInRoot) =>
        /\ {PathOf(j) : j \in zs.existing_jars} = {PathOf(j) : j \in Candidates(root.files)}
        /\ Cardinality({f \in root.files : ~UnderLib(f)}) <= 1 => LastOutput # MsgManyJars

\* The names of the artifact 'org/repo', version.
RepoName       == Segments(name)[2]
Artifact(ext)  == RepoName \o <<"-">> \o opts.version \o <<".">> \o ext

\* C7: when zip_artifact returns, repo-version.zip is in the output directory,
\* its entries are exactly repo-version.pom and repo-version.jar, and the
\* scratch directory is gone.
C7_ZipHoldsPomAndJar ==
    ZipReturned =>
        /\ \E z \in out : /\ z.path = <<Artifact(sZipExt)>>
                          /\ z.kind = "archive"
                          /\ z.entries = <<Artifact(sPom), Artifact(sJar)>>
        /\ \A e \in out : e.path[1] # zs.temp_dir

\* C7 witness: zip of a/b, with a jar that was built, has returned.
C7_Witness ==
    /\ ZipReturned
    /\ name = <<"a", "/", "b">>
    /\ root.sources # {}
    /\ zs.temp_dir = TempName

\* The run ended on a line of spark-package-deps.txt that is no dependency.
MalformedLine == pc = "exit" /\ LastOutput \in {MsgDepFormat, MsgDepName}

\* C8: when spark-package-deps.txt holds a malformed line the run ends before
\* any output is written: no zip, pom, jar or scratch directory is in the
\* output directory.
C8_MalformedLineLeavesNothing ==
    MalformedLine => out = {}

\* The occurrences of sub in s, counted from the left without overlap.
RECURSIVE CountOf(_, _)
CountOf(sub, s) ==
    IF Find(s, sub) = -1 THEN 0
    ELSE 1 + CountOf(sub, From(s, Find(s, sub) + Len(sub)))

sEq == <<"=", "=">>
BeforeEq(line) == SubSeq(line, 1, Find(line, sEq))
AfterEq(line)  == From(line, Find(line, sEq) + 2)
Owner(line)    == SubSeq(BeforeEq(line), 1, Find(BeforeEq(line), <<"/">>))
Repo(line)     == From(BeforeEq(line), Find(BeforeEq(line), <<"/">>) + 1)

\* owner/repo==version: exactly one '==', exactly one '/' before it.
DependencySpec(line) ==
    /\ CountOf(sEq, line) = 1
    /\ CountOf(<<"/">>, BeforeEq(line)) = 1

\* prepare_pom has just read a line of spark-package-deps.txt.
LineRead == pom.line # None /\ pc \in {"prepare_pom_deps", "exit", "crash"}

\* C9: a trimmed line that starts with '#' is skipped without error; any other
\* line is accepted, giving (owner, repo, version), if and only if it holds
\* exactly one '==' and exactly one '/' before it, and otherwise, a blank line
\* included, ends the run with an input error.
C9_DependencyLines ==
    LineRead =>
        IF StartsWith(pom.line, <<"#">>)
        THEN pc = "prepare_pom_deps" /\ pom.dep = <<>>
        ELSE IF DependencySpec(pom.line)
        THEN /\ pc = "prepare_pom_deps"
             /\ pom.dep = <<Owner(pom.line), Repo(pom.line), AfterEq(pom.line)>>
        ELSE MalformedLine

\* C9 witness: the line a/b==1 after a comment was accepted.
C9_Witness ==
    /\ pc = "prepare_pom_deps"
    /\ root.deps.lines = <<lComment, <<"a", "/", "=", "=">>, lGood>>
    /\ pom.line = lGood
    /\ pom.dep = <<<<"a">>, <<"b">>, <<"1">>>>

\* The entries of a collection of the descriptor, none when it is absent.
Collection(project, prefix, tag) ==
    IF find(project, prefix \o <<tag>>) = 0 THEN <<>>
    ELSE project.kids[find(project, prefix \o <<tag>>)].kids

HasKey(entry, prefix, keys) ==
    \A k \in 1..Len(keys) : find(entry, prefix \o <<keys[k]>>) # 0

KeyOf(entry, prefix, keys) ==
    [k \in 1..Len(keys) |-> entry.kids[find(entry, prefix \o <<keys[k]>>)].text]

SameKey(a, b, prefix, keys) ==
    /\ HasKey(a, prefix, keys)
    /\ HasKey(b, prefix, keys)
    /\ KeyOf(a, prefix, keys) = KeyOf(b, prefix, keys)

Repeated(entries, prefix, keys) ==
    \E i, j \in 1..Len(entries) : i < j /\ SameKey(entries[i], entries[j], prefix, keys)

\* The merge is complete: the descriptor is about to be put into the zip.
MergeDone == pc = "zip_artifact_write"

Before == IF root.pom.kind = "xml" THEN root.pom.project ELSE FreshProject

AddsNoRepeatedKey(tag, keys) ==
    LET old == Collection(Before, pom.prefix, tag)
        new == Collection(pom.project, pom.prefix, tag)
    IN  /\ Len(old) <= Len(new)
        /\ SubSeq(new, 1, Len(old)) = old
        /\ \A i, j \in 1..Len(new) :
              (i < j /\ SameKey(new[i], new[j], pom.prefix, keys)) => j <= Len(old)

NextLine   == Strip(Head(pom.lines))
UpsertNext ==
    /\ pc = "prepare_pom_deps"
    /\ pom.lines # <<>>
    /\ ~StartsWith(NextLine, <<"#">>)
    /\ DependencySpec(NextLine)

\* The text of the first field k of an entry.
FieldText(entry, prefix, k) == entry.kids[find(entry, prefix \o <<k>>)].text

\* An entry of the collection has the (groupId, artifactId) of the next line.
KnownKey(entries) ==
    \E i \in 1..Len(entries) :
        /\ HasKey(entries[i], pom.prefix, DepKeys)
        /\ KeyOf(entries[i], pom.prefix, DepKeys) = <<Owner(NextLine), Repo(NextLine)>>

\* C11: upserting a dependency whose (groupId, artifactId) is that of an entry
\* anywhere in the dependencies collection changes nothing: no entry is added
\* and no version is overwritten; a dependency with a new key is appended after
\* the existing entries, which stay as they are and in their order.
C11_UpsertFirstSeenWins ==
    [][ UpsertNext =>
          LET old == Collection(pom.project, pom.prefix, "dependencies")
              new == Collection(pom'.project, pom.prefix, "dependencies")
          IN  /\ pc' = "prepare_pom_deps"
              /\ IF KnownKey(old)
                 THEN new = old
                 ELSE /\ Len(new) = Len(old) + 1
                      /\ SubSeq(new, 1, Len(old)) = old
                      /\ HasKey(new[Len(new)], pom.prefix, DepOrder)
                      /\ KeyOf(new[Len(new)], pom.prefix, DepOrder)
                            = <<Owner(NextLine), Repo(NextLine), AfterEq(NextLine)>> ]_vars

\* The same for a collection whose entries all have their key fields, where
\* the duplicate check cannot stop the merge.
AllKeyed == \A i \in 1..Len(Collection(pom.project, pom.prefix, "dependencies")) :
               HasKey(Collection(pom.project, pom.prefix, "dependencies")[i], pom.prefix, DepKeys)

UpsertFirstSeenWinsWhenKeyed ==
    [][ (UpsertNext /\ AllKeyed) =>
          LET old == Collection(pom.project, pom.prefix, "dependencies")
              new == Collection(pom'.project, pom.prefix, "dependencies")
          IN  /\ pc' = "prepare_pom_deps"
              /\ IF KnownKey(old)
                 THEN new = old
                 ELSE /\ Len(new) = Len(old) + 1
                      /\ SubSeq(new, 1, Len(old)) = old
                      /\ KeyOf(new[Len(new)], pom.prefix, DepOrder)
                            = <<Owner(NextLine), Repo(NextLine), AfterEq(NextLine)>> ]_vars

-----------------------------------------------------------------------------
(* prepare_pom applied to the descriptor it wrote.                         *)

MergedAgain == "pom.xml := the descriptor written"

Again == events # <<>> /\ events[Len(events)] = MergedAgain

\* The environment takes the descriptor just written as the pom.xml of the
\* root, and prepare_pom runs once more with the same arguments.
merge_again ==
    /\ pc = "zip_artifact_write"
    /\ ~Again
    /\ root' = [root EXCEPT !.pom = [kind |-> "xml",
                                     project |-> Reparse(pom.project, root.pom.kind = "none")]]
    /\ pom' = NoPom
    /\ events' = Append(events, MergedAgain)
    /\ pc' = "prepare_pom"
    /\ UNCHANGED <<arguments, name, output, cwd, opts, out, zs, loc>>

NextTwice ==
    \/ main_arguments
    \/ main_validate_name
    \/ main_zip
    \/ zip_artifact_validate(PomListings)
    \/ zip_artifact_mkdtemp(PomOuts)
    \/ prepare_jar_open
    \/ prepare_jar_existing(PomTrees)
    \/ prepare_jar_files
    \/ prepare_jar_python(PomPythons)
    \/ prepare_jar_close
    \/ prepare_pom_start(IF Again THEN {root.pom} ELSE PomInputs,
                         IF Again THEN {root.deps} ELSE DepFileInputs)
    \/ prepare_pom_line
    \/ prepare_pom_write
    \/ merge_again

SpecTwice == InitPom /\ [][NextTwice]_vars

Scalars == <<"groupId", "artifactId", "version">>

-----------------------------------------------------------------------------
(* zip of a root whose pom.xml has each kind of root tag.                  *)

\* Root tags, as the parser gives them: "{uri}local" for a namespaced root.
RootTags ==
    { sProject,
      <<PomNs>> \o sProject,
      <<PomNs, "my">> \o sProject,
      sProject \o <<"s">>,
      <<PomNs, "proj">>,
      <<"Project">>,
      <<OtherNsOpen>> \o sProject \o <<OtherNsClose>> \o sProject }

\* The "{uri}" part of a tag: up to its first closing piece, or nothing.
Namespace(tag) ==
    IF tag # <<>> /\ tag[1] \in Opening \cup {PomNs}
    THEN SubSeq(tag, 1, Min({i \in 1..Len(tag) : tag[i] \in Closing}))
    ELSE <<>>

\* Children a pom.xml may already have, in the namespace of its root.
RootChildren(ns) ==
    { <<>>,
      <<Field(ns, "modelVersion", <<"4.0.0">>)>>,
      <<Field(ns, "modelVersion", <<"4.0.0">>), Field(ns, "groupId", <<"org.test">>)>>,
      <<Field(ns, "version", <<"0.1">>),
        Elem(ns \o <<"repositories">>, None, <<>>)>> }

TaggedPoms ==
    {NoPomFile}
    \cup { [kind |-> "xml", project |-> Elem(tag, None, kids)] :
             tag \in RootTags, kids \in UNION {RootChildren(Namespace(t)) : t \in RootTags} }

PrefixPoms ==
    {p \in TaggedPoms :
        p.kind = "xml" => p.project.kids \in RootChildren(Namespace(p.project.tag))}

PrefixDepFiles == {NoDepsFile, DepsFile(<<lGood>>), DepsFile(<<lGood, lOther>>)}

NextPrefix ==
    \/ main_arguments
    \/ main_validate_name
    \/ main_zip
    \/ zip_artifact_validate(PomListings)
    \/ zip_artifact_mkdtemp(PomOuts)
    \/ prepare_jar_open
    \/ prepare_jar_existing(PomTrees)
    \/ prepare_jar_files
    \/ prepare_jar_python(PomPythons)
    \/ prepare_jar_close
    \/ prepare_pom_start(PrefixPoms, PrefixDepFiles)
    \/ prepare_pom_line
    \/ prepare_pom_write
    \/ zip_artifact_write
    \/ zip_artifact_cleanup

SpecPrefix == InitPom /\ [][NextPrefix]_vars

LocalNames == {"modelVersion", "groupId", "artifactId", "version", "dependencies",
               "dependency", "repositories", "repository", "id", "name", "url", "layout"}

\* Every element below e is named ns + a local name.
RECURSIVE AllInNamespace(_, _)
AllInNamespace(e, ns) ==
    \A i \in 1..Len(e.kids) :
       /\ Len(e.kids[i].tag) = Len(ns) + 1
       /\ SubSeq(e.kids[i].tag, 1, Len(ns)) = ns
       /\ e.kids[i].tag[Len(ns) + 1] \in LocalNames
       /\ AllInNamespace(e.kids[i], ns)

\* C13: an existing pom.xml whose root tag does not contain "project" stops
\* the merge with the root-node error; for any other existing pom.xml the
\* prefix detected is the namespace of the root (root tag = prefix +
\* "project") and every element of the merged document is named prefix +
\* local name, in the namespace of the root; without a pom.xml the prefix is
\* empty.
C13_PrefixIsRootNamespace ==
    /\ (root.pom.kind = "xml" /\ ~In(sProject, root.pom.project.tag))
          => (pc = "crash" /\ LastOutput = "AssertionError" /\ pom = NoPom)
    /\ (root.pom.kind = "xml" /\ In(sProject, root.pom.project.tag))
          => /\ pc # "crash"
             /\ pom.prefix = Namespace(root.pom.project.tag)
             /\ root.pom.project.tag = pom.prefix \o sProject
             /\ AllInNamespace(pom.project, Namespace(root.pom.project.tag))
    /\ (root.pom.kind = "none" /\ pom # NoPom)
          => (pom.prefix = <<>> /\ AllInNamespace(pom.project, <<>>))

\* The same for the root tags that are "project" in a namespace or in none.
PrefixIsRootNamespaceOfProject ==
    (root.pom.kind = "xml"
       /\ root.pom.project.tag = Namespace(root.pom.project.tag) \o sProject
       /\ ~In(sProject, Namespace(root.pom.project.tag)))
        => C13_PrefixIsRootNamespace

-----------------------------------------------------------------------------
(* register and publish up to the credentials, on every small credentials  *)
(* file and every kind of flag.                                            *)

MaxCredLines == 3

\* 'user=<name>' and 'password=<token>' lines.
UserLine(n)     == sUserEq \o n
PasswordLine(t) == sPasswordEq \o t

CredNames  == {<<"u">>, <<"n", " ", "m">>}
CredTokens == {<<"p">>, sUserEq \o <<"1">>}
\* Lines that are neither: a comment, an empty line, a comment that shows the
\* format, another key.
OtherLines == {<<"#">>, <<>>, <<"#">> \o sUserEq \o <<"b">>, <<"k", "=", "v">>}

CredLines ==
    {UserLine(n) : n \in CredNames} \cup {PasswordLine(t) : t \in CredTokens}
    \cup OtherLines \cup {<<" ">> \o lUser \o <<"\n">>}

WideCredFiles  == SeqsUpTo(CredLines, MaxCredLines)
WideFlagInputs == {None, Blank, <<"f">>, <<" ", "g">>}

InitCred ==
    /\ Start
    /\ arguments \in {<<sRegister>>, <<sPublish>>}
    /\ name = <<"a", "/", "b">>

NextCred ==
    \/ main_arguments
    \/ main_validate_name
    \/ main_register
    \/ main_publish
    \/ resolve_credentials(CredInputs, WideCredFiles, WideFlagInputs)

SpecCred == InitCred /\ [][NextCred]_vars

Resolved == opts.cred # Unread

Returned == Resolved /\ pc \in {"register_package", "main_publish"}

Prompted(what) == \E i \in 1..Len(events) : events[i] = what

\* C14: the credentials come from the -c file when it exists, whatever -u and
\* -t hold and without a prompt; otherwise each of user and token is its flag
\* when the flag is not blank, and is prompted for only when the flag is
\* missing or blank; what is returned is never empty.
C14_CredentialPriority ==
    Resolved =>
       /\ (opts.cred # None /\ isfile(opts.cred)) =>
             /\ events = <<>>
             /\ Returned => /\ loc.user = read_credentials_file(loc.content).user
                            /\ loc.token = read_credentials_file(loc.content).token
             /\ ~Returned => pc = "exit" /\ read_credentials_file_error(loc.content) # NoError
       /\ ~(opts.cred # None /\ isfile(opts.cred)) =>
             /\ Prompted("prompt: username") => IsBlank(opts.user)
             /\ Prompted("prompt: token") => IsBlank(opts.token)
             /\ Returned =>
                   /\ ~IsBlank(opts.user) => loc.user = opts.user
                   /\ ~IsBlank(opts.token) => loc.token = opts.token
                   /\ IsBlank(opts.user) => Prompted("prompt: username")
                   /\ IsBlank(opts.token) => Prompted("prompt: token")
             /\ ~Returned => pc = "exit" /\ LastOutput \in {MsgNoUser, MsgNoToken}
       /\ Returned => loc.user \notin {None, <<>>} /\ loc.token \notin {None, <<>>}

\* C14 witness: -c names a file that exists, -u and -t are given too, and the
\* user and token returned are those of the file.
C14_Witness ==
    /\ Returned
    /\ opts.cred = CredPath
    /\ opts.user = <<"f">>
    /\ opts.token = <<"f">>
    /\ loc.content = <<lUser, lPassword>>
    /\ loc.user = <<"u">>
    /\ loc.token = <<"p">>

\* A 'user=<name>' line and a 'password=<token>' line of the credentials file.
IsUserLine(line)     == StartsWith(Strip(line), sUserEq)
IsPasswordLine(line) == StartsWith(Strip(line), sPasswordEq)

NameOf(line)  == Strip(From(Strip(line), Len(sUserEq)))
TokenOf(line) == Strip(From(Strip(line), Len(sPasswordEq)))

TheLine(content, Is(_)) == content[CHOOSE i \in 1..Len(content) : Is(content[i])]

\* The file read has one 'user=<name>' line and one 'password=<token>' line.
OneOfEach ==
    /\ Resolved
    /\ opts.cred # None /\ isfile(opts.cred)
    /\ Cardinality({i \in 1..Len(loc.content) : IsUserLine(loc.content[i])}) = 1
    /\ Cardinality({i \in 1..Len(loc.content) : IsPasswordLine(loc.content[i])}) = 1

\* C15: a credentials file with one 'user=<name>' line and one
\* 'password=<token>' line gives user = <name> and token = <token>, in either
\* order of the two lines and whatever the other lines are.
C15_CredentialsFileRead ==
    OneOfEach =>
       /\ Returned
       /\ loc.user = NameOf(TheLine(loc.content, IsUserLine))
       /\ loc.token = TokenOf(TheLine(loc.content, IsPasswordLine))

\* 'user=' and 'password=' occur in the file only at the start of those lines.
KeysOnlyAtStart ==
    \A i \in 1..Len(loc.content) :
       LET line == loc.content[i]
       IN  /\ In(sUserEq, line) => (IsUserLine(line) /\ ~In(sUserEq, Tail(Strip(line))))
           /\ In(sPasswordEq, line) => (IsUserLine(line) \/ IsPasswordLine(line))

\* The same for the files in which the two keys occur only at the start of
\* their lines.
CredentialsFileReadWhenKeysAtStart ==
    KeysOnlyAtStart => C15_CredentialsFileRead

-----------------------------------------------------------------------------
(* register, on every description and every answer for the homepage.       *)

RegisterNames == {<<"a", "/", "b">>, <<"a", "-", "/", "b">>}

InitRegister ==
    /\ Start
    /\ arguments = <<sRegister>>
    /\ name \in RegisterNames

NextRegister ==
    \/ main_arguments
    \/ main_validate_name
    \/ main_register
    \/ resolve_credentials(ZipCredInputs, ZipCredFiles, ZipFlagInputs)
    \/ get_description
    \/ register_package_homepage
    \/ register_package_http

SpecRegister == InitRegister /\ [][NextRegister]_vars

\* Positions in the log of the requests sent over HTTP.
Requests == {i \in 1..Len(events) : events[i] \in {"GET homepage", "POST submit-package"}}

Posts == {i \in 1..Len(events) : events[i] = "POST submit-package"}

\* C16: the submit-package POST is sent only after a GET of the homepage that
\* succeeded; a GET that failed ends the run with the error and without a
\* POST; an empty short or long description ends the run before any request.
C16_PostOnlyAfterHomepage ==
    /\ \A i \in Posts : i > 3 /\ events[i - 2] = "GET homepage" /\ events[i - 1] = "200"
    /\ \A i \in 1..Len(events) :
          (events[i] = "GET homepage" /\ events[i + 1] # "200")
             => /\ Posts = {}
                /\ pc = "crash"
                /\ LastOutput \in {"HTTPError", "ConnectionError"}
    /\ (LastOutput \in {MsgNoDesc, "AssertionError"}) => (pc \in {"exit", "crash"} /\ Requests = {})
    /\ (Requests # {}) => /\ loc.short_desc # None /\ Strip(loc.short_desc) # <<>>
                          /\ loc.long_desc # None /\ Strip(loc.long_desc) # <<>>

\* C16 witness: the registry was asked after the default homepage was found.
C16_Witness ==
    /\ pc = "done"
    /\ Posts # {}
    /\ LastOutput = "SUCCESS"
    /\ loc.homepage = sGithub \o name

-----------------------------------------------------------------------------
(* publish, on every kind of -f, -z and -v.                                *)

InitPublish ==
    /\ Start
    /\ arguments = <<sPublish>>
    /\ name = <<"a", "/", "b">>

NextPublish ==
    \/ main_arguments
    \/ main_validate_name
    \/ main_publish
    \/ resolve_credentials(ZipCredInputs, ZipCredFiles, ZipFlagInputs)
    \/ main_publish_check
    \/ publish_release_git
    \/ get_license_id(LicenseAnswers)
    \/ publish_release_zip
    \/ zip_artifact_validate(ZipListings)
    \/ zip_artifact_mkdtemp(OutInputs)
    \/ prepare_jar_open
    \/ prepare_jar_existing(ZipTrees)
    \/ prepare_jar_files
    \/ prepare_jar_python(ZipPythons)
    \/ prepare_jar_close
    \/ prepare_pom_start(ZipPoms, ZipDepFiles)
    \/ prepare_pom_line
    \/ prepare_pom_write
    \/ zip_artifact_write
    \/ zip_artifact_cleanup
    \/ publish_release_upload

SpecPublish == InitPublish /\ [][NextPublish]_vars

Checked == opts.folder # Unread

Posted == \E i \in 1..Len(events) : events[i] = "POST submit-release"

Built == zs.caller # None

\* C17: publish takes an existing folder or an existing zip file. With only
\* -z naming an existing zip file (and a version) the run passes the check of
\* the required flags and what it uploads is that file, nothing being built;
\* with only -f the zip is built by zip_artifact and the result is uploaded;
\* the folder-or-zip error is reported only when neither exists.
C17_FolderOrZip ==
    Checked =>
       /\ (opts.folder = None /\ opts.zip # None /\ isfile(opts.zip) /\ ~IsBlank(opts.version))
             => /\ pc \notin {"exit", "crash"}
                /\ ~Built
                /\ Posted => loc.zip = opts.zip
       /\ (check_path_exists(opts.folder) /\ opts.zip = None)
             => /\ LastOutput # MsgNoFolderZip
                /\ Posted => (Built /\ loc.zip = zip_path /\ ZipPathOut \in Paths(out))
       /\ LastOutput = MsgNoFolderZip
             => /\ ~check_path_exists(opts.folder)
                /\ ~(opts.zip # None /\ isfile(opts.zip))

\* The same without the case of -z alone.
FolderOrZipWithFolder ==
    check_path_exists(opts.folder) => C17_FolderOrZip

\* A zip built from the folder was uploaded.
BuiltAndPosted ==
    /\ pc = "done"
    /\ Posted
    /\ Built
    /\ opts.zip = None
    /\ loc.zip = zip_path

GitAsked == loc.sys_out # None

\* C18: publish asks git for the commit of HEAD in the folder before anything
\* else: an empty answer stops the run with no license prompt, no zip built
\* and no request sent, and the submit-release POST is sent only with a
\* commit hash that is not empty.
C18_CommitFirst ==
    /\ (Prompted("prompt: license") \/ Built \/ Posted) => GitAsked
    /\ (GitAsked /\ Strip(loc.sys_out) = <<>>)
          => /\ pc = "crash"
             /\ LastOutput = "AssertionError"
             /\ ~Prompted("prompt: license")
             /\ ~Built
             /\ out = {}
             /\ ~Posted
    /\ Posted => (loc.git_sha1 # None /\ loc.git_sha1 # <<>> /\ loc.git_sha1 = Strip(loc.sys_out))

\* C18 witness: git printed only a newline and the run stopped there; no
\* license was asked for.
C18_Witness ==
    /\ GitAsked
    /\ loc.sys_out = <<"\n">>
    /\ pc = "crash"
    /\ cwd = RootPath
    /\ events = <<>>

-----------------------------------------------------------------------------
(* init, on every combination of language flags and every license number.  *)

InitNames == {<<"a", "/", "b">>, <<"a", "/", "c", "-">>}

WideLicenseAnswers == 0..(Len(licenses) + 1)

InitInit ==
    /\ Start
    /\ arguments = <<sInit>>
    /\ name \in InitNames

NextInit ==
    \/ main_arguments
    \/ main_validate_name
    \/ main_init
    \/ init_empty_package
    \/ get_license_id(WideLicenseAnswers)
    \/ init_empty_package_create

SpecInit == InitInit /\ [][NextInit]_vars

Created == Action = sInit /\ pc = "done"

\* The package directory holds the path given.
Has(names) == Below(Split(name, <<"/">>)[2], names) \in Paths(out)

HasAll(paths) == \A names \in paths : Has(names)
HasNone(paths) == \A names \in paths : ~Has(names)

\* Whether the flag was given, --scala being the default.
Flag(language) == language \in opts.given \/ (language = "scala" /\ opts.given = {})

SrcOf(suffix) == {<<"src", "main", suffix>>, <<"src", "test", suffix>>}

SbtSet == {<<"build.sbt">>, <<"project">>, <<"build">>}

PythonSet ==
    {<<"python">>} \cup
    { <<"python", f>> : f \in {"setup.py", "setup.cfg", "MANIFEST.in", "requirements.txt",
                               "spark-package-deps.txt", "tests.py"} }

RSet ==
    {<<"R">>, <<"R", "pkg">>, <<"R", "pkg", "DESCRIPTION">>, <<"R", "pkg", "NAMESPACE">>,
     <<"R", "pkg", "man", "documentation.Rd">>, <<"R", "pkg", "Read-and-delete-me">>}
    \cup { <<"R", "pkg", d>> : d \in {"R", "man", "data", "src"} }

OnlyWith(paths, flag) == IF flag THEN HasAll(paths) ELSE HasNone(paths)

\* C19: for every combination of --scala, --java, --python and --R the tree
\* init creates holds LICENSE, README.md and .gitignore; src/main/scala and
\* src/test/scala exactly when scala is on, the same for java; build.sbt,
\* project/ and build/ exactly when scala or java is on; the python/ files
\* exactly when python is on; the R/pkg files exactly when R is on; with no
\* flag the tree is that of --scala alone.
C19_TreeByFlags ==
    Created =>
       /\ HasAll({<<"LICENSE">>, <<"README.md">>, <<".gitignore">>})
       /\ OnlyWith(SrcOf("scala"), Flag("scala"))
       /\ OnlyWith(SrcOf("java"), Flag("java"))
       /\ OnlyWith(SbtSet, Flag("scala") \/ Flag("java"))
       /\ OnlyWith(PythonSet, Flag("python"))
       /\ OnlyWith(RSet, Flag("r"))
       /\ opts.given = {} =>
             out = InitTree(Split(name, <<"/">>)[2], TRUE, FALSE, FALSE, FALSE, loc.license_id)
       /\ \A e \in out :
             Len(e.path) > 1 =>
                e.path[2] \in {<<"LICENSE">>, <<"README.md">>, <<".gitignore">>, <<"src">>,
                               <<"build.sbt">>, <<"project">>, <<"build">>, <<"python">>, <<"R">>}

\* C19 witness: init with --python and --R only.
C19_Witness ==
    /\ Created
    /\ opts.given = {"python", "r"}
    /\ Has(<<"python", "setup.py">>)
    /\ Has(<<"R", "pkg", "DESCRIPTION">>)
    /\ ~Has(<<"src">>)

\* The text of a file of the package directory.
TextOf(names) == At(out, Below(Split(name, <<"/">>)[2], names)).entries

Mentions(text, word) == \E i \in 1..Len(text) : text[i] = word

\* C20: the license prompt returns only a number k from 1 to N, the number of
\* licenses, and asks again after every number outside; for k < N init writes
\* the text of license k to LICENSE and its name and url to build.sbt; for
\* k = N it writes the placeholder license and no name and url.
C20_LicenseSelection ==
    /\ loc.license_id # 0 =>
          /\ loc.license_id \in 1..Len(licenses)
          /\ loc.typed # <<>> /\ loc.typed[Len(loc.typed)] = loc.license_id
    /\ \A i \in 1..Len(loc.typed) :
          (loc.typed[i] < 1 \/ loc.typed[i] > Len(licenses))
             => \/ Cardinality({j \in 1..Len(events) : events[j] = "prompt: license"}) > i
                \/ pc = "get_license_id"
    /\ Created =>
          LET k == loc.license_id
          IN  /\ k < Len(licenses) =>
                    /\ TextOf(<<"LICENSE">>) = <<"resources/license_temps", licenses[k].name>>
                    /\ Has(<<"build.sbt">>) =>
                          /\ Mentions(TextOf(<<"build.sbt">>), licenses[k].name)
                          /\ Mentions(TextOf(<<"build.sbt">>), licenses[k].url)
                          /\ \A j \in 1..Len(licenses) :
                                j # k => ~Mentions(TextOf(<<"build.sbt">>), licenses[j].name)
              /\ k = Len(licenses) =>
                    /\ TextOf(<<"LICENSE">>) = <<"resources/LICENSE">>
                    /\ Has(<<"build.sbt">>) =>
                          \A j \in 1..Len(licenses) :
                             /\ ~Mentions(TextOf(<<"build.sbt">>), licenses[j].name)
                             /\ ~Mentions(TextOf(<<"build.sbt">>), licenses[j].url)

\* C20 witness: 0 was typed, then the number of the last license, and the
\* scala package was created with the placeholder license.
C20_Witness ==
    /\ Created
    /\ loc.typed = <<0, Len(licenses)>>
    /\ Has(<<"build.sbt">>)
    /\ TextOf(<<"LICENSE">>) = <<"resources/LICENSE">>

-----------------------------------------------------------------------------
(* zip of a root whose pom.xml has each short list of top-level children.  *)

\* How many children the root of an existing pom.xml holds at most.
MaxChildren == 4

\* Children of the root: the coordinates, an unrelated field, the collections.
RootChildrenOf(p) ==
    { Field(p, "modelVersion", <<"4.0.0">>),
      Elem(p \o <<"repositories">>, None, <<Repository(p, <<"u">>)>>),
      Field(p, "groupId", <<"org.test">>),
      Field(p, "artifactId", <<"zip-test">>),
      Field(p, "version", <<"0.2">>),
      Elem(p \o <<"dependencies">>, None, <<Dependency(p, <<"a">>, <<"b">>, <<"2">>)>>) }

ChildrenPoms ==
    {NoPomFile}
    \cup { [kind |-> "xml", project |-> Elem(<<PomNs>> \o sProject, None, kids)] :
              kids \in SeqsUpTo(RootChildrenOf(<<PomNs>>), MaxChildren) }

ChildrenDepFiles == {NoDepsFile, DepsFile(<<lGood, lOther>>)}

NextChildren ==
    \/ main_arguments
    \/ main_validate_name
    \/ main_zip
    \/ zip_artifact_validate(PomListings)
    \/ zip_artifact_mkdtemp(PomOuts)
    \/ prepare_jar_open
    \/ prepare_jar_existing(PomTrees)
    \/ prepare_jar_files
    \/ prepare_jar_python(PomPythons)
    \/ prepare_jar_close
    \/ prepare_pom_start(ChildrenPoms, ChildrenDepFiles)
    \/ prepare_pom_line
    \/ prepare_pom_write
    \/ zip_artifact_write
    \/ zip_artifact_cleanup

SpecChildren == InitPom /\ [][NextChildren]_vars

\* prepare_pom has set the coordinates of an existing pom.xml.
Started == root.pom.kind = "xml" /\ pom # NoPom

\* The positions prepare_pom gives for the three coordinates.
Position(k) == CHOOSE i \in 1..3 : Scalars[i] = k

Absent(k) == find(Before, pom.prefix \o <<k>>) = 0

\* The coordinates the existing pom.xml lacks, and those of them placed
\* before the coordinate k.
AbsentBefore(k) == {j \in 1..3 : j < Position(k) /\ Absent(Scalars[j])}

\* An absent coordinate meets more children than its position.
Crowded(k) == Absent(k) /\ Len(Before.kids) + Cardinality(AbsentBefore(k)) > Position(k)

\* C21: a coordinate absent from an existing pom.xml that has more children
\* than the coordinate's position is appended as the last child, and no child
\* the pom.xml had changes its index.
C21_AppendedWhenCrowded ==
    (Started /\ \E k \in {"groupId", "artifactId", "version"} : Crowded(k)) =>
        \A i \in 1..Len(Before.kids) : pom.project.kids[i].tag = Before.kids[i].tag

\* s without the elements at the indexes in S.
RECURSIVE Without(_, _)
Without(s, S) ==
    IF s = <<>> THEN <<>>
    ELSE Without(SubSeq(s, 1, Len(s) - 1), S)
         \o (IF Len(s) \in S THEN <<>> ELSE <<s[Len(s)]>>)

\* Where the coordinate k stands among the children of the merged root.
IndexOf(k) == find(pom.project, pom.prefix \o <<k>>)

Inserted == {IndexOf(k) : k \in {c \in {"groupId", "artifactId", "version"} : Absent(c)}}

\* C21, amended: an absent coordinate is inserted at its position counted
\* from 0 (at the end when the root has fewer children); the children at or
\* after that position move one index up, and all children of the pom.xml
\* keep their relative order.
C21_InsertedAtPosition ==
    Started =>
        /\ \A k \in {"groupId", "artifactId", "version"} :
              Absent(k) =>
                 IndexOf(k) = 1 + (IF Crowded(k) THEN Position(k)
                                   ELSE Len(Before.kids) + Cardinality(AbsentBefore(k)))
        /\ LET first == SubSeq(pom.project.kids, 1, Len(Before.kids) + Cardinality(Inserted))
               kept  == Without(first, Inserted)
           IN  [i \in 1..Len(kept) |-> kept[i].tag] = [i \in 1..Len(Before.kids) |-> Before.kids[i].tag]

\* C21 witness: the pom.xml held modelVersion, artifactId, version and
\* dependencies and no groupId; groupId is now its second child and
\* artifactId its third.
C21_Witness ==
    /\ Started
    /\ Len(Before.kids) = 4
    /\ Absent("groupId")
    /\ Before.kids[1].tag = pom.prefix \o <<"modelVersion">>
    /\ Before.kids[2].tag = pom.prefix \o <<"artifactId">>
    /\ Before.kids[4].tag = pom.prefix \o <<"dependencies">>
    /\ IndexOf("groupId") = 2
    /\ pom.project.kids[3].tag = pom.prefix \o <<"artifactId">>
    /\ Len(pom.project.kids) = 5

\* The value prepare_pom supplies for a coordinate.
Supplied(k) ==
    IF k = "groupId" THEN GroupId(name)
    ELSE IF k = "artifactId" THEN ArtifactId(name)
    ELSE opts.version

\* The child at index i of the existing root is the one the merge finds for
\* the tag given.
Found(i, k) == find(Before, pom.prefix \o <<k>>) = i

\* The child old of the existing root, at index i there, is the child new of
\* the merged root: a coordinate has the text supplied, a collection begins
\* with the entries it had, anything else is as it was.
Preserved(i, old, new) ==
    IF \E k \in {"groupId", "artifactId", "version"} : Found(i, k)
    THEN \E k \in {"groupId", "artifactId", "version"} :
            Found(i, k) /\ new = [old EXCEPT !.text = Supplied(k)]
    ELSE IF Found(i, "dependencies") \/ Found(i, "repositories")
    THEN /\ new.tag = old.tag
         /\ new.text = old.text
         /\ Len(new.kids) >= Len(old.kids)
         /\ SubSeq(new.kids, 1, Len(old.kids)) = old.kids
    ELSE new = old

\* C22: a merge into an existing pom.xml keeps every child of the root and
\* every entry of dependencies and repositories, in their order and with their
\* text; only the text of an existing groupId, artifactId or version becomes
\* the value supplied; a dependencies or repositories element that was
\* missing is added as the last child of the root.
C22_MergePreserves ==
    (MergeDone /\ root.pom.kind = "xml") =>
        LET had   == Len(Before.kids) + Cardinality(Inserted)
            kept  == Without(SubSeq(pom.project.kids, 1, had), Inserted)
            added == SubSeq(pom.project.kids, had + 1, Len(pom.project.kids))
        IN  /\ Len(kept) = Len(Before.kids)
            /\ \A i \in 1..Len(kept) : Preserved(i, Before.kids[i], kept[i])
            /\ \A i \in 1..Len(added) :
                  /\ added[i].tag \in {pom.prefix \o <<"dependencies">>,
                                       pom.prefix \o <<"repositories">>}
                  /\ find(Before, added[i].tag) = 0
            /\ find(Before, pom.prefix \o <<"repositories">>) = 0
                  => /\ added # <<>>
                     /\ added[Len(added)].tag = pom.prefix \o <<"repositories">>

\* C22 witness: the pom.xml held modelVersion, groupId, a dependencies element
\* with a/b and no repositories; the merge of a/b and c/b kept a/b as it was,
\* added c/b after it and repositories as the last child of the root.
C22_Witness ==
    /\ MergeDone
    /\ root.pom.kind = "xml"
    /\ Len(Before.kids) = 3
    /\ Before.kids[1].tag = pom.prefix \o <<"modelVersion">>
    /\ Before.kids[2].tag = pom.prefix \o <<"groupId">>
    /\ Before.kids[3].tag = pom.prefix \o <<"dependencies">>
    /\ root.deps.present
    /\ Len(pom.project.kids) = 6
    /\ Len(Collection(pom.project, pom.prefix, "dependencies")) = 2
    /\ pom.project.kids[6].tag = pom.prefix \o <<"repositories">>

\* The dependency specs of spark-package-deps.txt: its lines that are no
\* comments, trimmed.
Specs ==
    LET lines == IF root.deps.present THEN root.deps.lines ELSE <<>>
        IsSpec(line) == ~StartsWith(Strip(line), <<"#">>)
    IN  [i \in 1..Len(SelectSeq(lines, IsSpec)) |-> Strip(SelectSeq(lines, IsSpec)[i])]

SpecKeys == {<<Owner(Specs[i]), Repo(Specs[i])>> : i \in 1..Len(Specs)}

Tags(e) == [i \in 1..Len(e.kids) |-> e.kids[i].tag]

\* The first spec with the key of the entry gives its three fields.
FromFirstSpec(entry) ==
    \E i \in 1..Len(Specs) :
       /\ \A j \in 1..(i - 1) :
             <<Owner(Specs[j]), Repo(Specs[j])>> # <<Owner(Specs[i]), Repo(Specs[i])>>
       /\ [k \in 1..3 |-> entry.kids[k].text] = <<Owner(Specs[i]), Repo(Specs[i]), AfterEq(Specs[i])>>

\* C23: without a pom.xml the children of the merged root are, in this order,
\* groupId (the organization), artifactId (the repository), version, a
\* dependencies element exactly when a dependency spec was given, with one
\* dependency per distinct key and the fields groupId, artifactId, version,
\* and a repositories element with the one repository SparkPackagesRepo and
\* its fields id, name, url, layout.
C23_FreshDescriptorOrder ==
    (MergeDone /\ root.pom.kind = "none") =>
        LET project      == pom.project
            dependencies == Collection(project, <<>>, "dependencies")
            repositories == Collection(project, <<>>, "repositories")
        IN  /\ Tags(project) = << <<"groupId">>, <<"artifactId">>, <<"version">> >>
                                \o (IF Specs # <<>> THEN << <<"dependencies">> >> ELSE <<>>)
                                \o << <<"repositories">> >>
            /\ project.kids[1].text = Segments(name)[1]
            /\ project.kids[2].text = Segments(name)[2]
            /\ project.kids[3].text = opts.version
            /\ Len(dependencies) = Cardinality(SpecKeys)
            /\ \A i \in 1..Len(dependencies) :
                  /\ dependencies[i].tag = <<"dependency">>
                  /\ Tags(dependencies[i]) = << <<"groupId">>, <<"artifactId">>, <<"version">> >>
                  /\ FromFirstSpec(dependencies[i])
                  /\ \A j \in 1..Len(dependencies) :
                        (i # j) => ~SameKey(dependencies[i], dependencies[j], <<>>, DepKeys)
            /\ Len(repositories) = 1
            /\ repositories[1].tag = <<"repository">>
            /\ Tags(repositories[1]) = << <<"id">>, <<"name">>, <<"url">>, <<"layout">> >>
            /\ [k \in 1..4 |-> repositories[1].kids[k].text]
                  = <<repo.id, repo.name, repo.url, repo.layout>>
            /\ \A i \in 1..Len(repositories[1].kids) : repositories[1].kids[i].kids = <<>>

\* C23 witness: no pom.xml, and a/b==1 followed by a/b==2: one dependency,
\* a/b with version 1, before the repositories.
C23_Witness ==
    /\ MergeDone
    /\ root.pom.kind = "none"
    /\ root.deps.present
    /\ root.deps.lines = <<lGood, lGood2>>
    /\ Len(pom.project.kids) = 5
    /\ Len(Collection(pom.project, <<>>, "dependencies")) = 1
    /\ Collection(pom.project, <<>>, "dependencies")[1].kids[3].text = <<"1">>

\* The inner jar under construction, as os.walk meets it.
IsInnerJar(f) == f.dir = zs.temp_dir /\ f.file = zs.artifact_name \o sJar

\* C24: the inner jar that zip is writing is never among the jars found: with
\* the output directory inside the root, sources in the root and exactly one
\* jar built, that jar is the one candidate and is copied; with no jar built
\* the run ends with 'jar could not be found' and nothing is copied.
C24_InnerJarIsNoCandidate ==
    (JarSearched /\ OutInRoot /\ root.sources # {}) =>
        /\ \A j \in zs.existing_jars : ~IsInnerJar(j)
        /\ Cardinality(Candidates(root.files)) = 1 =>
              /\ pc = "prepare_jar_files"
              /\ \E j \in Candidates(root.files) : zs.jar = j.entries
        /\ Cardinality(Candidates(root.files)) = 0 =>
              /\ pc = "exit"
              /\ LastOutput = MsgNoJar

\* The same for a package whose name makes the filter of line 125 pass over
\* the inner jar, and a root without jars that the filter and the path
\* disagree on.
InnerJarIsNoCandidateWhenFiltered ==
    (In(sLib, RepoName) /\ {PathOf(j) : j \in ExistingJars(root.files)}
                              = {PathOf(j) : j \in Candidates(root.files)})
        => C24_InnerJarIsNoCandidate

\* An entry of the existing pom.xml lacks a key field.
LacksKey(tag, keys) ==
    \E i \in 1..Len(Collection(Before, Prefix(Before), tag)) :
       ~HasKey(Collection(Before, Prefix(Before), tag)[i], Prefix(Before), keys)

PomGiven == root.pom.kind = "xml" /\ pc \in {"prepare_pom_deps", "zip_artifact_write", "crash"}

\* C25: the duplicate check completes for every existing pom.xml: an entry of
\* dependencies without groupId or artifactId, or of repositories without url,
\* matches nothing; the merge does not end in an unhandled failure and goes on
\* to append the new entry.
C25_DuplicateCheckCompletes ==
    (PomGiven /\ (LacksKey("dependencies", DepKeys) \/ LacksKey("repositories", RepoKeys))) =>
        /\ pc # "crash"
        /\ MergeDone =>
              \E i \in 1..Len(Collection(pom.project, pom.prefix, "repositories")) :
                 /\ HasKey(Collection(pom.project, pom.prefix, "repositories")[i],
                           pom.prefix, RepoKeys)
                 /\ KeyOf(Collection(pom.project, pom.prefix, "repositories")[i],
                          pom.prefix, RepoKeys) = <<repo.url>>

\* Every merge into a pom.xml whose entries all have their key fields
\* completes.
DuplicateCheckCompletesWhenKeyed ==
    (PomGiven /\ ~LacksKey("dependencies", DepKeys) /\ ~LacksKey("repositories", RepoKeys))
        => pc # "crash"

\* A merge into a pom.xml with an entry that lacks a key field completes only
\* when an entry before it has the key looked for.
CompletedDespiteMissingKey ==
    /\ MergeDone
    /\ root.pom.kind = "xml"
    /\ LacksKey("repositories", RepoKeys)

=============================================================================
